---- MODULE Spec2Model ----
(***************************************************************************)
(* Streaming session controller of the agent workspace front-end:          *)
(* the useChat / useSessions hooks (frontend/src/hooks/useSession.ts), the *)
(* stream generator of the API client (frontend/src/lib/api.ts), the       *)
(* guards of the chat panel that calls them                                *)
(* (frontend/src/components/ChatPanel.tsx), and the request client         *)
(* fetchApi of the API client with timeouts and retries.                   *)
(*                                                                         *)
(* One action is one run-to-completion step of the browser event loop: a   *)
(* user command, or the continuation of an awaited promise.  All frames of *)
(* one network chunk are folded inside one step, because the generator and *)
(* the for-await loop only suspend on micro-tasks between two frames.      *)
(***************************************************************************)
EXTENDS Integers, Sequences, FiniteSets, TLC

(***************************************************************************)
(* Bounds                                                                  *)
(***************************************************************************)
MaxSends == 2      \* calls of sendMessageStream, two sessions
MaxResends == 3    \* calls of sendMessageStream, one session
MaxEvents == 1     \* events delivered by one stream
MaxFetch == 1      \* getHistory calls in flight per session and caller
MaxPermissionSends == 2   \* sends in the runs with permission decisions
MaxFoldSends == 2   \* sends in the runs that interleave the folds of two sessions
MaxFoldEvents == 2  \* events one read loop delivers in those runs
MaxDoneSends == 1   \* sends in the runs with events that follow a done event
MaxDoneEvents == 3  \* events one read loop delivers in those runs
MaxTurnSends == 1   \* sends in the runs of a whole turn
MaxBytes == 8       \* bytes of the source one read loop decodes

Sessions == {"A", "B"}
NoSession == "none"
Texts == {"hello"}
RequestIds == {"r1"}
NoResult == "<undefined>"

VARIABLES
    sessions,            \* useSessions: ids of the sessions in the list
    sessionId,           \* useChat: the selected session (prop of the hook)
    messages,            \* useChat state: transcript shown by the UI
    streaming,           \* useChat state
    error,               \* useChat state
    permissionRequests,  \* useChat state: permission cards shown by the UI
    messageCache,        \* module map: session id -> transcript
    streamingState,      \* module map: session id -> boolean
    abortControllers,    \* module map: session id -> controller (stream number)
    pendingPermissions,  \* module map: session id -> permission requests
    streams,             \* the read loops of sendMessageStream, one per call
    fetches,             \* getHistory calls in flight, per session and caller
    decisions,           \* respondToPermission calls in flight
    decoder,             \* api.streamMessage: one read loop over a byte source
    client,              \* fetchApi: one call of the request client
    reducer,             \* one transcript and the events folded into it
    panel                \* ChatPanel: a tool list and the todos read from it

\* The state of the session hooks and module maps.
sessionVars == <<sessions, sessionId, messages, streaming, error,
                 permissionRequests, messageCache, streamingState,
                 abortControllers, pendingPermissions, streams, fetches,
                 decisions>>

vars == <<sessionVars, decoder, client, reducer, panel>>

(***************************************************************************)
(* JavaScript Map                                                          *)
(***************************************************************************)
MapHas(m, k) == k \in DOMAIN m
MapSet(m, k, v) == [x \in (DOMAIN m) \cup {k} |-> IF x = k THEN v ELSE m[x]]
MapDelete(m, k) == [x \in (DOMAIN m) \ {k} |-> m[x]]
MapGetOr(m, k, d) == IF k \in DOMAIN m THEN m[k] ELSE d
EmptyMap == [x \in {} |-> x]

(***************************************************************************)
(* Messages.  origin is bookkeeping: the session on which the message was  *)
(* sent, streamed or fetched.  An absent optional field is its empty value *)
(* (the code reads them through `|| ''` and `|| []`).                      *)
(***************************************************************************)
UserMessage(content, s) ==
    [role |-> "user", content |-> content, thinking |-> "", tool_use |-> <<>>,
     isStreaming |-> FALSE, currentTool |-> "", lastHeartbeat |-> 0,
     responseLength |-> 0, toolCount |-> 0, origin |-> s]

Placeholder(s) ==
    [role |-> "assistant", content |-> "", thinking |-> "", tool_use |-> <<>>,
     isStreaming |-> TRUE, currentTool |-> "", lastHeartbeat |-> 0,
     responseLength |-> 0, toolCount |-> 0, origin |-> s]

HistoryMessage(role, content, s) ==
    [role |-> role, content |-> content, thinking |-> "", tool_use |-> <<>>,
     isStreaming |-> FALSE, currentTool |-> "", lastHeartbeat |-> 0,
     responseLength |-> 0, toolCount |-> 0, origin |-> s]

\* What the history endpoint may answer for session s.
Histories(s) ==
    { <<HistoryMessage("assistant", "old", s)>> }

NoError == [msg |-> "", origin |-> NoSession]
ErrorOf(msg, s) == [msg |-> msg, origin |-> s]

(***************************************************************************)
(* Stream events (StreamChunk)                                             *)
(***************************************************************************)
\* content of a legacy tool_use event is a ToolUse: the field entry holds
\* it, and holds NoEntry in the events whose content is a string.
NoEntry ==
    [tool |-> "", input |-> {}, inputRaw |-> "", id |-> "", status |-> "",
     result |-> "<undefined>"]

Event(type, content) ==
    [type |-> type, content |-> content, tool |-> "", id |-> "",
     response_length |-> 0, tool_count |-> 0, entry |-> NoEntry]
ToolStart(tool, id) ==
    [type |-> "tool_use_start", content |-> "", tool |-> tool, id |-> id,
     response_length |-> 0, tool_count |-> 0, entry |-> NoEntry]
ToolInputDelta(id, fragment) ==
    [type |-> "tool_input_delta", content |-> fragment, tool |-> "", id |-> id,
     response_length |-> 0, tool_count |-> 0, entry |-> NoEntry]
LegacyToolUse(entry) ==
    [type |-> "tool_use", content |-> "", tool |-> "", id |-> "",
     response_length |-> 0, tool_count |-> 0, entry |-> entry]
Heartbeat(len, count) ==
    [type |-> "heartbeat", content |-> "", tool |-> "", id |-> "",
     response_length |-> len, tool_count |-> count, entry |-> NoEntry]
PermissionEvent(rid) ==
    [type |-> "permission_request", content |-> "", tool |-> "Bash", id |-> rid,
     response_length |-> 0, tool_count |-> 0, entry |-> NoEntry]

\* JSON.parse on the raw input buffer of a tool: the documents that parse,
\* and the object each parses to (a set of key/value pairs).
JSONDocuments == { "{}", "{q:x}" }
JSONParse(raw) == IF raw = "{}" THEN {} ELSE {<<"q", "x">>}

ToolEntry(tool, id) ==
    [tool |-> tool, input |-> {}, inputRaw |-> "", id |-> id,
     status |-> "running", result |-> NoResult]

\* The entry a legacy tool_use event carries: a complete ToolUse, without
\* the fields of the incremental events.
LegacyEntry ==
    [tool |-> "Search", input |-> JSONParse("{q:x}"), inputRaw |-> "",
     id |-> "", status |-> "", result |-> NoResult]

(***************************************************************************)
(* Conversation state reducer                                              *)
(***************************************************************************)
\* The last message of a transcript, as the set of arguments an updater is
\* called with.
LastOf(msgs) == IF Len(msgs) = 0 THEN {} ELSE {msgs[Len(msgs)]}

\* An update of the last message whatever its role.
updateLastMessage(msgs, updater) ==
    IF Len(msgs) = 0 THEN msgs
    ELSE [msgs EXCEPT ![Len(msgs)] = updater[msgs[Len(msgs)]]]

\* updater[msg] is the message after the partial update has been merged in.
updateLastAssistantMessage(msgs, updater) ==
    IF Len(msgs) = 0 THEN msgs
    ELSE LET lastIndex == Len(msgs)
             lastMessage == msgs[lastIndex]
         IN  IF lastMessage.role # "assistant" THEN msgs
             ELSE [msgs EXCEPT ![lastIndex] = updater[lastMessage]]

\* findIndex: the first entry with the given id, 0 when there is none.
FindToolIndex(tools, id) ==
    IF \E i \in 1..Len(tools) : tools[i].id = id
    THEN CHOOSE i \in 1..Len(tools) :
            /\ tools[i].id = id
            /\ \A j \in 1..(i - 1) : tools[j].id # id
    ELSE 0

\* A fragment that goes to the last entry, whatever its id.
ApplyToolInputDeltaToLast(msg, chunk) ==
    IF Len(msg.tool_use) = 0 THEN msg
    ELSE LET toolIndex == Len(msg.tool_use)
             tool == msg.tool_use[toolIndex]
             raw == tool.inputRaw \o chunk.content
             parsed == IF raw \in JSONDocuments
                       THEN JSONParse(raw) ELSE tool.input
         IN  [msg EXCEPT !.tool_use[toolIndex] =
                 [tool EXCEPT !.inputRaw = raw, !.input = parsed]]

ApplyToolInputDelta(msg, chunk) ==
    IF Len(msg.tool_use) = 0 THEN msg
    ELSE LET toolIndex == FindToolIndex(msg.tool_use, chunk.id)
         IN  IF toolIndex = 0 THEN msg
             ELSE LET tool == msg.tool_use[toolIndex]
                      raw == tool.inputRaw \o chunk.content
                      parsed == IF raw \in JSONDocuments
                                THEN JSONParse(raw) ELSE tool.input
                  IN  [msg EXCEPT !.tool_use[toolIndex] =
                          [tool EXCEPT !.inputRaw = raw, !.input = parsed]]

\* A result that goes to the first entry that has none.
ApplyToolResultToFirstPending(msg, chunk) ==
    IF \A i \in 1..Len(msg.tool_use) : msg.tool_use[i].result # NoResult
    THEN msg
    ELSE LET first == CHOOSE i \in 1..Len(msg.tool_use) :
                         /\ msg.tool_use[i].result = NoResult
                         /\ \A j \in 1..(i - 1) : msg.tool_use[j].result # NoResult
         IN  [msg EXCEPT !.tool_use[first].result = chunk.content]

ApplyToolResult(msg, chunk) ==
    IF Len(msg.tool_use) = 0 THEN msg
    ELSE [msg EXCEPT !.tool_use[Len(msg.tool_use)].result = chunk.content]

\* The event types that the read loop folds into the transcript.
TranscriptEventTypes ==
    {"text_delta", "thinking_delta", "thinking_start", "tool_use_start",
     "tool_input_delta", "tool_use_end", "tool_result", "text", "tool_use",
     "done", "heartbeat"}

\* The transcript after one transcript event has been folded in.
Fold(currentMessages, chunk) ==
    CASE chunk.type = "text_delta" ->
            updateLastAssistantMessage(currentMessages,
                [msg \in LastOf(currentMessages) |->
                    [msg EXCEPT !.content = @ \o chunk.content]])
      [] chunk.type = "thinking_delta" ->
            updateLastAssistantMessage(currentMessages,
                [msg \in LastOf(currentMessages) |->
                    [msg EXCEPT !.thinking = @ \o chunk.content]])
      [] chunk.type = "thinking_start" ->
            updateLastAssistantMessage(currentMessages,
                [msg \in LastOf(currentMessages) |->
                    [msg EXCEPT !.thinking = ""]])
      [] chunk.type = "tool_use_start" ->
            updateLastAssistantMessage(currentMessages,
                [msg \in LastOf(currentMessages) |->
                    [msg EXCEPT
                    !.tool_use = Append(@, ToolEntry(chunk.tool, chunk.id)),
                    !.currentTool = chunk.tool]])
      [] chunk.type = "tool_input_delta" ->
            updateLastAssistantMessage(currentMessages,
                [msg \in LastOf(currentMessages) |->
                    ApplyToolInputDelta(msg, chunk)])
      [] chunk.type = "tool_use_end" ->
            updateLastAssistantMessage(currentMessages,
                [msg \in LastOf(currentMessages) |->
                    [msg EXCEPT !.currentTool = ""]])
      [] chunk.type = "tool_result" ->
            updateLastAssistantMessage(currentMessages,
                [msg \in LastOf(currentMessages) |->
                    ApplyToolResult(msg, chunk)])
      [] chunk.type = "text" ->
            updateLastAssistantMessage(currentMessages,
                [msg \in LastOf(currentMessages) |->
                    [msg EXCEPT !.content = chunk.content]])
      [] chunk.type = "tool_use" ->
            updateLastAssistantMessage(currentMessages,
                [msg \in LastOf(currentMessages) |->
                    [msg EXCEPT !.tool_use = Append(@, chunk.entry)]])
      [] chunk.type = "done" ->
            updateLastAssistantMessage(currentMessages,
                [msg \in LastOf(currentMessages) |->
                    [msg EXCEPT !.isStreaming = FALSE]])
      [] chunk.type = "heartbeat" ->
            updateLastAssistantMessage(currentMessages,
                [msg \in LastOf(currentMessages) |->
                    [msg EXCEPT !.lastHeartbeat = 1,
                                         !.responseLength = chunk.response_length,
                                         !.toolCount = chunk.tool_count]])
      [] OTHER -> currentMessages

\* The sequential reducer fold of the events frames over transcript t: what
\* a turn that nothing else writes to leaves in the transcript.
RECURSIVE FoldAll(_, _)
FoldAll(t, frames) ==
    IF frames = <<>> THEN t
    ELSE FoldAll(IF Head(frames).type \in TranscriptEventTypes
                 THEN Fold(t, Head(frames)) ELSE t,
                 Tail(frames))

PermissionOf(chunk) == [request_id |-> chunk.id, tool_name |-> chunk.tool]

(***************************************************************************)
(* The body of the for-await loop of sendMessageStream, for the loop that  *)
(* was started on session s.  h is the part of the state the body touches. *)
(***************************************************************************)
HookState ==
    [messageCache |-> messageCache, messages |-> messages,
     pendingPermissions |-> pendingPermissions,
     permissionRequests |-> permissionRequests, error |-> error]

HandleEvent(h, s, chunk) ==
    IF chunk.type \in TranscriptEventTypes
    THEN LET updated == Fold(MapGetOr(h.messageCache, s, <<>>), chunk)
         IN  [h EXCEPT !.messageCache = MapSet(@, s, updated),
                       !.messages = updated]
    ELSE IF chunk.type = "error"
    THEN [h EXCEPT !.error = ErrorOf("event", s)]
    ELSE IF chunk.type = "permission_request"
    THEN LET requests == Append(MapGetOr(h.pendingPermissions, s, <<>>),
                                PermissionOf(chunk))
         IN  [h EXCEPT !.pendingPermissions = MapSet(@, s, requests),
                       !.permissionRequests = requests]
    ELSE h

RECURSIVE HandleFrames(_, _, _)
HandleFrames(h, s, frames) ==
    IF frames = <<>> THEN h
    ELSE HandleFrames(HandleEvent(h, s, Head(frames)), s, Tail(frames))

(***************************************************************************)
(* State of the read loops and of the requests in flight                   *)
(***************************************************************************)
\* A read loop is "live" while it awaits the next chunk and "aborted" once
\* its signal has fired and the rejection has not been delivered yet; it is
\* "idle" after its finally block.  n counts the events
\* folded; before, turn and log are bookkeeping: the transcript of the
\* session when the send was issued, the transcript the send wrote with the
\* events delivered since folded into it one after the other, and these
\* events.
IdleStream ==
    [status |-> "idle", sid |-> NoSession, n |-> 0, before |-> <<>>,
     turn |-> <<>>, log |-> <<>>]

FetchKinds == {"effect", "refresh"}

\* The events the streams of the session controller deliver.
StreamEvents ==
    { Event("text_delta", "a"), Event("done", "") }
      \cup { PermissionEvent(r) : r \in RequestIds }

ResendEvents == { Event("text_delta", "a"), Event("done", "") }

\* The events of the runs that interleave the folds of two sessions: the
\* order of two text deltas shows in the content.
FoldEvents == { Event("text_delta", "a"), Event("text_delta", "b") }

\* The events of the runs in which a stream goes on after its done event.
DoneEvents ==
    { Event("done", ""), Event("text_delta", "a"), Event("text", "b"),
      Event("thinking_delta", "t"), ToolStart("Search", "t1"),
      Heartbeat(1, 1) }

\* The request ids of the runs with permission decisions, and the events
\* their streams deliver.
PermissionIds == {"r1", "r2"}
PermissionStreamEvents ==
    { Event("text_delta", "a") } \cup { PermissionEvent(r) : r \in PermissionIds }

\* The frames of one chunk: at most room events out of the set events.
Chunks(events, room) ==
    UNION { [1..len -> events] : len \in 1..room }

InitSessions ==
    /\ sessions = Sessions
    /\ sessionId = NoSession
    /\ messages = <<>>
    /\ streaming = FALSE
    /\ error = NoError
    /\ permissionRequests = <<>>
    /\ messageCache = EmptyMap
    /\ streamingState = EmptyMap
    /\ abortControllers = EmptyMap
    /\ pendingPermissions = EmptyMap
    /\ streams = <<>>
    /\ fetches = [f \in Sessions \X FetchKinds |-> 0]
    /\ decisions = {}

\* No byte source is being decoded.  pending holds the frames of the chunk
\* in hand that the for loop has not reached yet, released counts the calls
\* of reader.releaseLock().
IdleDecoder ==
    [input |-> <<>>, pos |-> 0, buffer |-> <<>>, yielded |-> <<>>,
     status |-> "closed", pending |-> <<>>, released |-> 0]

(***************************************************************************)
(* fetchApi: errors and the state of one call.  status of an error is the  *)
(* HTTP status, 408 for a timeout and 0 for a network failure; an error    *)
(* that is no ApiError carries no status.  log (the outcome of every       *)
(* attempt made), waits (the backoff delays slept) and timer (the attempt  *)
(* whose setTimeout is armed) are bookkeeping.                             *)
(***************************************************************************)
NoStatus == -1
NoTimer == -1
NoApiError == [name |-> "", status |-> NoStatus, isRetryable |-> FALSE]
ApiError(status, isRetryable) ==
    [name |-> "ApiError", status |-> status, isRetryable |-> isRetryable]
RawError(name) == [name |-> name, status |-> NoStatus, isRetryable |-> FALSE]

\* No call is in progress.
IdleClient ==
    [pc |-> "idle", retries |-> 0, attempt |-> 0, timer |-> NoTimer,
     lastError |-> NoApiError, error |-> NoApiError, waits |-> <<>>,
     log |-> <<>>]

\* No transcript is being folded outside the sessions.
IdleReducer == [before |-> <<>>, transcript |-> <<>>, log |-> <<>>]

\* No tool list is being rendered.  todos is the value extractLatestTodos
\* returned, "unread" before the call.
NoTodos == [read |-> FALSE, found |-> FALSE, items |-> <<>>]
IdlePanel == [isArray |-> TRUE, tools |-> <<>>, todos |-> NoTodos]

Init ==
    /\ InitSessions
    /\ decoder = IdleDecoder
    /\ client = IdleClient
    /\ reducer = IdleReducer
    /\ panel = IdlePanel

(***************************************************************************)
(* useChat: the effect that runs when the selected session changes         *)
(***************************************************************************)
\* A cache-first effect: a cached transcript is shown and nothing is fetched.
SessionChangeEffectCacheFirst(s, sstate, cache) ==
    /\ sessionId' = s
    /\ IF s = NoSession
       THEN /\ messages' = <<>>
            /\ streaming' = FALSE
            /\ UNCHANGED fetches
       ELSE /\ streaming' = MapGetOr(sstate, s, FALSE)
            /\ IF MapHas(cache, s)
               THEN /\ messages' = cache[s]
                    /\ UNCHANGED fetches
               ELSE /\ fetches[<<s, "effect">>] < MaxFetch
                    /\ fetches' = [fetches EXCEPT ![<<s, "effect">>] = @ + 1]
                    /\ UNCHANGED messages

\* The effect body for the new selection s, under the streaming map sstate and
\* the transcript map cache.  It writes no module map.
SessionChangeEffect(s, sstate, cache) ==
    /\ sessionId' = s
    /\ IF s = NoSession
       THEN /\ messages' = <<>>
            /\ streaming' = FALSE
            /\ UNCHANGED fetches
       ELSE LET isSessionStreaming == MapGetOr(sstate, s, FALSE)
            IN  /\ streaming' = isSessionStreaming
                /\ IF isSessionStreaming
                   THEN /\ messages' = MapGetOr(cache, s, messages)
                        /\ UNCHANGED fetches
                   ELSE /\ fetches[<<s, "effect">>] < MaxFetch
                        /\ fetches' = [fetches EXCEPT ![<<s, "effect">>] = @ + 1]
                        /\ UNCHANGED messages

SelectSession(s) ==
    /\ s \in sessions
    /\ s # sessionId
    /\ SessionChangeEffect(s, streamingState, messageCache)
    /\ UNCHANGED <<decoder, client, reducer, panel>>
    /\ UNCHANGED <<sessions, error, permissionRequests, messageCache,
                   streamingState, abortControllers, pendingPermissions,
                   streams, decisions>>

\* api.getHistory resolved: syncToCache of the render that issued the call.
HistoryLoaded(s, kind) ==
    /\ fetches[<<s, kind>>] > 0
    /\ \E history \in Histories(s) :
          /\ messageCache' = MapSet(messageCache, s, history)
          /\ messages' = history
    /\ fetches' = [fetches EXCEPT ![<<s, kind>>] = @ - 1]
    /\ UNCHANGED <<decoder, client, reducer, panel>>
    /\ UNCHANGED <<sessions, sessionId, streaming, error, permissionRequests,
                   streamingState, abortControllers, pendingPermissions,
                   streams, decisions>>

\* api.getHistory rejected.
HistoryFailed(s, kind) ==
    /\ fetches[<<s, kind>>] > 0
    /\ messages' = IF /\ kind = "effect"
                      /\ Len(MapGetOr(messageCache, s, <<>>)) > 0
                   THEN messageCache[s] ELSE messages
    /\ error' = ErrorOf("history", s)
    /\ fetches' = [fetches EXCEPT ![<<s, kind>>] = @ - 1]
    /\ UNCHANGED <<decoder, client, reducer, panel>>
    /\ UNCHANGED <<sessions, sessionId, streaming, permissionRequests,
                   messageCache, streamingState, abortControllers,
                   pendingPermissions, streams, decisions>>

fetchHistory ==
    /\ sessionId # NoSession
    /\ fetches[<<sessionId, "refresh">>] < MaxFetch
    /\ error' = NoError
    /\ fetches' = [fetches EXCEPT ![<<sessionId, "refresh">>] = @ + 1]
    /\ UNCHANGED <<decoder, client, reducer, panel>>
    /\ UNCHANGED <<sessions, sessionId, messages, streaming, permissionRequests,
                   messageCache, streamingState, abortControllers,
                   pendingPermissions, streams, decisions>>

(***************************************************************************)
(* useChat.sendMessageStream                                               *)
(***************************************************************************)
\* A controller whose signal is not passed on to the stream's request.
AbortUnwired(strs, k) == strs

\* controller.abort(): the read loop that owns the signal stops awaiting.
Abort(strs, k) ==
    IF strs[k].status = "live" THEN [strs EXCEPT ![k].status = "aborted"] ELSE strs

\* The synchronous part of the call, up to the first await of the read loop.
sendMessageStream(content) ==
    /\ sessionId # NoSession
    /\ LET s == sessionId
           k == Len(streams) + 1
           afterAbort == IF MapHas(abortControllers, s)
                         THEN Abort(streams, abortControllers[s])
                         ELSE streams
           initialMessages == messages \o <<UserMessage(content, s), Placeholder(s)>>
       IN  /\ abortControllers' = MapSet(abortControllers, s, k)
           /\ streaming' = TRUE
           /\ streamingState' = MapSet(streamingState, s, TRUE)
           /\ error' = NoError
           /\ messageCache' = MapSet(messageCache, s, initialMessages)
           /\ messages' = initialMessages
           /\ streams' = Append(afterAbort,
                             [status |-> "live", sid |-> s, n |-> 0,
                              before |-> MapGetOr(messageCache, s, <<>>),
                              turn |-> initialMessages, log |-> <<>>])
    /\ UNCHANGED <<decoder, client, reducer, panel>>
    /\ UNCHANGED <<sessions, sessionId, permissionRequests,
                   pendingPermissions, fetches, decisions>>

\* A finally block that forgets the bookkeeping of the session.
FinallyKeepsFlag(s) ==
    /\ streaming' = FALSE
    /\ UNCHANGED <<streamingState, abortControllers>>

\* The finally block of the call that was issued on session s.
Finally(s) ==
    /\ streaming' = FALSE
    /\ streamingState' = MapSet(streamingState, s, FALSE)
    /\ abortControllers' = MapDelete(abortControllers, s)

\* reader.read() of the live read loop k resolved with a chunk that holds
\* the events frames: every one of them is folded.
StreamFrames(k, frames) ==
    /\ LET h == HandleFrames(HookState, streams[k].sid, frames)
       IN  /\ messageCache' = h.messageCache
           /\ messages' = h.messages
           /\ pendingPermissions' = h.pendingPermissions
           /\ permissionRequests' = h.permissionRequests
           /\ error' = h.error
           /\ streams' = [streams EXCEPT ![k].n = @ + Len(frames),
                                         ![k].turn = FoldAll(@, frames),
                                         ![k].log = @ \o frames]
    /\ UNCHANGED <<decoder, client, reducer, panel>>
    /\ UNCHANGED <<sessions, sessionId, streaming, streamingState,
                   abortControllers, fetches, decisions>>

\* A chunk of events drawn from the set events.  The read loop delivers at
\* most maxEvents events.
StreamChunkUpTo(k, events, maxEvents) ==
    /\ k \in 1..Len(streams)
    /\ streams[k].status = "live"
    /\ streams[k].n < maxEvents
    /\ \E frames \in Chunks(events, maxEvents - streams[k].n) :
          StreamFrames(k, frames)

\* A chunk of a source that sends the events of script in their order: the
\* next events of it, one or more.
StreamScript(k, script) ==
    /\ k \in 1..Len(streams)
    /\ streams[k].status = "live"
    /\ streams[k].n < Len(script)
    /\ streams[k].log = SubSeq(script, 1, streams[k].n)
    /\ \E m \in 1..(Len(script) - streams[k].n) :
          StreamFrames(k, SubSeq(script, streams[k].n + 1, streams[k].n + m))

StreamChunk(k, events) == StreamChunkUpTo(k, events, MaxEvents)

\* reader.read() resolved with done: the loop ends normally.
StreamClose(k) ==
    /\ k \in 1..Len(streams)
    /\ streams[k].status = "live"
    /\ Finally(streams[k].sid)
    /\ streams' = [streams EXCEPT ![k] = IdleStream]
    /\ UNCHANGED <<decoder, client, reducer, panel>>
    /\ UNCHANGED <<sessions, sessionId, messages, error,
                   permissionRequests, messageCache, pendingPermissions,
                   fetches, decisions>>

\* The HTTP request or a read failed: catch block with a genuine error.
StreamError(k) ==
    /\ k \in 1..Len(streams)
    /\ streams[k].status = "live"
    /\ LET s == streams[k].sid
           currentMessages == MapGetOr(messageCache, s, <<>>)
       IN  /\ error' = ErrorOf("stream", s)
           /\ IF Len(currentMessages) >= 2
              THEN LET reverted == SubSeq(currentMessages, 1, Len(currentMessages) - 2)
                   IN  /\ messageCache' = MapSet(messageCache, s, reverted)
                       /\ messages' = reverted
              ELSE UNCHANGED <<messageCache, messages>>
           /\ Finally(s)
    /\ streams' = [streams EXCEPT ![k] = IdleStream]
    /\ UNCHANGED <<decoder, client, reducer, panel>>
    /\ UNCHANGED <<sessions, sessionId, permissionRequests,
                   pendingPermissions, fetches, decisions>>

\* The awaited fetch or read rejected with AbortError: catch block without
\* rollback, then finally.
StreamAborted(k) ==
    /\ k \in 1..Len(streams)
    /\ streams[k].status = "aborted"
    /\ Finally(streams[k].sid)
    /\ streams' = [streams EXCEPT ![k] = IdleStream]
    /\ UNCHANGED <<decoder, client, reducer, panel>>
    /\ UNCHANGED <<sessions, sessionId, messages, error,
                   permissionRequests, messageCache, pendingPermissions,
                   fetches, decisions>>

(***************************************************************************)
(* useChat.stopStreaming                                                   *)
(***************************************************************************)
\* A stop that also discards the requests that wait for a decision.
stopStreamingDropsPermissions ==
    /\ sessionId # NoSession
    /\ LET s == sessionId
           currentMessages == MapGetOr(messageCache, s, <<>>)
           updated == updateLastAssistantMessage(currentMessages,
                          [msg \in LastOf(currentMessages) |->
                              [msg EXCEPT !.isStreaming = FALSE]])
       IN  /\ streams' = IF MapHas(abortControllers, s)
                         THEN Abort(streams, abortControllers[s]) ELSE streams
           /\ abortControllers' = MapDelete(abortControllers, s)
           /\ streaming' = FALSE
           /\ streamingState' = MapSet(streamingState, s, FALSE)
           /\ messageCache' = MapSet(messageCache, s, updated)
           /\ messages' = updated
           /\ pendingPermissions' = MapDelete(pendingPermissions, s)
           /\ permissionRequests' = <<>>
    /\ UNCHANGED <<decoder, client, reducer, panel>>
    /\ UNCHANGED <<sessions, sessionId, error, fetches, decisions>>

stopStreaming ==
    /\ sessionId # NoSession
    /\ LET s == sessionId
           currentMessages == MapGetOr(messageCache, s, <<>>)
           updated == updateLastAssistantMessage(currentMessages,
                          [msg \in LastOf(currentMessages) |->
                              [msg EXCEPT !.isStreaming = FALSE]])
       IN  /\ streams' = IF MapHas(abortControllers, s)
                         THEN Abort(streams, abortControllers[s]) ELSE streams
           /\ abortControllers' = MapDelete(abortControllers, s)
           /\ streaming' = FALSE
           /\ streamingState' = MapSet(streamingState, s, FALSE)
           /\ messageCache' = MapSet(messageCache, s, updated)
           /\ messages' = updated
    /\ UNCHANGED <<decoder, client, reducer, panel>>
    /\ UNCHANGED <<sessions, sessionId, error, permissionRequests,
                   pendingPermissions, fetches, decisions>>

(***************************************************************************)
(* useChat.respondToPermission                                             *)
(***************************************************************************)
\* A card is shown for each displayed request once the transcript is not
\* empty, and its buttons are disabled while its decision is in flight.
respondToPermission(requestId) ==
    /\ sessionId # NoSession
    /\ Len(messages) > 0
    /\ \E i \in 1..Len(permissionRequests) :
          permissionRequests[i].request_id = requestId
    /\ <<sessionId, requestId>> \notin decisions
    /\ decisions' = decisions \cup {<<sessionId, requestId>>}
    /\ UNCHANGED <<decoder, client, reducer, panel>>
    /\ UNCHANGED <<sessions, sessionId, messages, streaming, error,
                   permissionRequests, messageCache, streamingState,
                   abortControllers, pendingPermissions, streams, fetches>>

\* filter(r => r.request_id !== requestId)
WithoutRequest(requests, requestId) ==
    SelectSeq(requests, LAMBDA r : r.request_id # requestId)

\* A resolution that filters the list on display instead of the queue of
\* the session.
PermissionAnsweredFromDisplay(s, requestId) ==
    /\ <<s, requestId>> \in decisions
    /\ decisions' = decisions \ {<<s, requestId>>}
    /\ LET remaining == WithoutRequest(permissionRequests, requestId)
       IN  /\ pendingPermissions' = MapSet(pendingPermissions, s, remaining)
           /\ permissionRequests' = remaining
    /\ UNCHANGED <<decoder, client, reducer, panel>>
    /\ UNCHANGED <<sessions, sessionId, messages, streaming, error,
                   messageCache, streamingState, abortControllers, streams,
                   fetches>>

PermissionAnswered(s, requestId) ==
    /\ <<s, requestId>> \in decisions
    /\ decisions' = decisions \ {<<s, requestId>>}
    /\ LET remaining == WithoutRequest(MapGetOr(pendingPermissions, s, <<>>), requestId)
       IN  /\ pendingPermissions' = MapSet(pendingPermissions, s, remaining)
           /\ permissionRequests' = remaining
    /\ UNCHANGED <<decoder, client, reducer, panel>>
    /\ UNCHANGED <<sessions, sessionId, messages, streaming, error,
                   messageCache, streamingState, abortControllers, streams,
                   fetches>>

\* A failure that drops the request all the same.
PermissionFailedDropsRequest(s, requestId) ==
    /\ <<s, requestId>> \in decisions
    /\ decisions' = decisions \ {<<s, requestId>>}
    /\ error' = ErrorOf("permission", s)
    /\ LET remaining == WithoutRequest(MapGetOr(pendingPermissions, s, <<>>), requestId)
       IN  /\ pendingPermissions' = MapSet(pendingPermissions, s, remaining)
           /\ permissionRequests' = remaining
    /\ UNCHANGED <<decoder, client, reducer, panel>>
    /\ UNCHANGED <<sessions, sessionId, messages, streaming, messageCache,
                   streamingState, abortControllers, streams, fetches>>

PermissionFailed(s, requestId) ==
    /\ <<s, requestId>> \in decisions
    /\ decisions' = decisions \ {<<s, requestId>>}
    /\ error' = ErrorOf("permission", s)
    /\ UNCHANGED <<decoder, client, reducer, panel>>
    /\ UNCHANGED <<sessions, sessionId, messages, streaming,
                   permissionRequests, messageCache, streamingState,
                   abortControllers, pendingPermissions, streams, fetches>>

(***************************************************************************)
(* useSessions.deleteSession, after api.deleteSession resolved, followed   *)
(* by SessionList.handleDeleteSession                                      *)
(***************************************************************************)
deleteSession(s) ==
    /\ s \in sessions
    /\ sessions' = sessions \ {s}
    /\ messageCache' = MapDelete(messageCache, s)
    /\ streamingState' = MapDelete(streamingState, s)
    /\ IF sessionId = s
       THEN \E next \in (sessions \ {s}) \cup {NoSession} :
               /\ (next = NoSession) <=> (sessions \ {s} = {})
               /\ SessionChangeEffect(next, streamingState', messageCache')
       ELSE UNCHANGED <<sessionId, messages, streaming, fetches>>
    /\ UNCHANGED <<decoder, client, reducer, panel>>
    /\ UNCHANGED <<error, permissionRequests, abortControllers,
                   pendingPermissions, streams, decisions>>

(***************************************************************************)
(* api.streamMessage: the frame decoder.  decoder.decode(value, {stream:    *)
(* true}) hands over the characters whose bytes are complete and keeps an  *)
(* unfinished one for the next call, so what is appended to the buffer are *)
(* the characters of the bytes read; a byte here is one such character: a  *)
(* line feed, the prefix "data: " (one symbol for its six characters), or  *)
(* a character of the payload.  "j" and "k" are JSON documents of their    *)
(* own; two documents in a row, or none, do not parse.                     *)
(***************************************************************************)
LF == "\n"
DataPrefix == "d"
Bytes == {LF, DataPrefix, "j", "k"}

ByteSequences == UNION { [1..n -> Bytes] : n \in 0..MaxBytes }

\* buffer.split('\n\n'): the pieces between the separators, found from the
\* left; cur is the piece being read.
RECURSIVE SplitFrom(_, _)
SplitFrom(s, cur) ==
    IF s = <<>> THEN <<cur>>
    ELSE IF Len(s) >= 2 /\ s[1] = LF /\ s[2] = LF
    THEN <<cur>> \o SplitFrom(SubSeq(s, 3, Len(s)), <<>>)
    ELSE SplitFrom(Tail(s), Append(cur, Head(s)))

Split(s) == SplitFrom(s, <<>>)

\* line.startsWith('data: ')
StartsWithData(line) == Len(line) >= 1 /\ line[1] = DataPrefix

\* JSON.parse ignores white space around the document.
Trimmed(payload) == SelectSeq(payload, LAMBDA c : c # LF)

\* JSON.parse(line.slice(6)) returns a value.
Parses(line) ==
    LET document == Trimmed(Tail(line))
    IN  Len(document) = 1 /\ document[1] \in {"j", "k"}

\* The value JSON.parse returns for a line that parses.
Parsed(line) == Trimmed(Tail(line))[1]

\* The for loop over the complete lines of one read: what it yields.
RECURSIVE YieldLines(_)
YieldLines(lines) ==
    IF lines = <<>> THEN <<>>
    ELSE LET line == Head(lines)
             data == IF StartsWithData(line) /\ Parses(line)
                     THEN <<Parsed(line)>> ELSE <<>>
         IN  data \o YieldLines(Tail(lines))

\* A for loop without the try/catch around JSON.parse: the first line that
\* carries the prefix and does not parse ends the read loop.
DecodeThrows(d, value) ==
    LET lines == Split(d.buffer \o value)
        complete == SubSeq(lines, 1, Len(lines) - 1)
        bad == \E i \in 1..Len(complete) :
                  StartsWithData(complete[i]) /\ ~Parses(complete[i])
    IN  [d EXCEPT !.pos = @ + Len(value),
                  !.buffer = lines[Len(lines)],
                  !.yielded = @ \o YieldLines(complete),
                  !.status = IF bad THEN "failed" ELSE @]

\* A read loop that starts every read with an empty buffer.
DecodeWithoutCarry(d, value) ==
    LET lines == Split(value)
    IN  [d EXCEPT !.pos = @ + Len(value),
                  !.buffer = lines[Len(lines)],
                  !.yielded = @ \o YieldLines(SubSeq(lines, 1, Len(lines) - 1))]

\* One turn of the while loop for the chunk value: append to the buffer,
\* split, keep the last piece, yield the frames of the others.
Decode(d, value) ==
    LET lines == Split(d.buffer \o value)
    IN  [d EXCEPT !.pos = @ + Len(value),
                  !.buffer = lines[Len(lines)],
                  !.yielded = @ \o YieldLines(SubSeq(lines, 1, Len(lines) - 1))]

\* reader.read() resolved with the next n bytes of the source.
DecoderRead(n) ==
    /\ decoder.status = "reading"
    /\ n \in 1..(Len(decoder.input) - decoder.pos)
    /\ decoder' = Decode(decoder,
                         SubSeq(decoder.input, decoder.pos + 1, decoder.pos + n))
    /\ UNCHANGED <<sessionVars, client, reducer, panel>>

\* The finally block of the generator.
Release(d) == [d EXCEPT !.released = @ + 1]

\* A loop that, at done, treats what is left in the buffer as a last line.
DecoderDoneFlushes ==
    /\ decoder.status = "reading"
    /\ decoder.pos = Len(decoder.input)
    /\ decoder' = Release([decoder EXCEPT
                              !.status = "closed",
                              !.yielded = @ \o YieldLines(<<decoder.buffer>>)])
    /\ UNCHANGED <<sessionVars, client, reducer, panel>>

\* reader.read() resolved with done: the loop ends and the lock is released.
DecoderDone ==
    /\ decoder.status = "reading"
    /\ decoder.pos = Len(decoder.input)
    /\ decoder' = Release([decoder EXCEPT !.status = "closed"])
    /\ UNCHANGED <<sessionVars, client, reducer, panel>>

\* A source of at most MaxBytes bytes, about to be read.
InitDecoder ==
    /\ InitSessions
    /\ client = IdleClient
    /\ reducer = IdleReducer
    /\ panel = IdlePanel
    /\ \E input \in ByteSequences :
          decoder = [IdleDecoder EXCEPT !.input = input, !.status = "reading"]

NextDecoder ==
    \/ \E n \in 1..MaxBytes : DecoderRead(n)
    \/ DecoderDone

SpecDecoder == InitDecoder /\ [][NextDecoder]_vars

(***************************************************************************)
(* api.streamMessage, frame by frame.  The generator is suspended either   *)
(* in reader.read() ("reading") or at its yield ("suspended"); the frames  *)
(* of one chunk are handed over one by one, each when the consumer asks    *)
(* for the next value.  It leaves the try block when the source is done    *)
(* ("closed"), when a read rejects ("failed": the signal fired, or the     *)
(* transport failed), or when the consumer calls return() at a yield       *)
(* ("returned").                                                           *)
(***************************************************************************)
MaxReaderBytes == 8

ReaderInputs == UNION { [1..n -> Bytes] : n \in 0..MaxReaderBytes }

\* The for loop runs up to its next yield, or to the end of the chunk.
Advance(d, frames) ==
    IF frames = <<>>
    THEN [d EXCEPT !.pending = <<>>, !.status = "reading"]
    ELSE [d EXCEPT !.yielded = Append(@, Head(frames)),
                   !.pending = Tail(frames),
                   !.status = "suspended"]

\* reader.read() resolved with the next n bytes of the source.
ReaderRead(n) ==
    /\ decoder.status = "reading"
    /\ n \in 1..(Len(decoder.input) - decoder.pos)
    /\ LET value == SubSeq(decoder.input, decoder.pos + 1, decoder.pos + n)
           lines == Split(decoder.buffer \o value)
       IN  decoder' = Advance([decoder EXCEPT !.pos = @ + n,
                                              !.buffer = lines[Len(lines)]],
                              YieldLines(SubSeq(lines, 1, Len(lines) - 1)))
    /\ UNCHANGED <<sessionVars, client, reducer, panel>>

\* The consumer asked for the next value: the generator resumes after its
\* yield.
ReaderResume ==
    /\ decoder.status = "suspended"
    /\ decoder' = Advance(decoder, decoder.pending)
    /\ UNCHANGED <<sessionVars, client, reducer, panel>>

\* reader.read() resolved with done.
ReaderDone ==
    /\ decoder.status = "reading"
    /\ decoder.pos = Len(decoder.input)
    /\ decoder' = Release([decoder EXCEPT !.status = "closed"])
    /\ UNCHANGED <<sessionVars, client, reducer, panel>>

\* A generator whose release follows the loop instead of sitting in a
\* finally block: a rejected read skips it.
ReaderFailedWithoutFinally ==
    /\ decoder.status = "reading"
    /\ decoder' = [decoder EXCEPT !.status = "failed"]
    /\ UNCHANGED <<sessionVars, client, reducer, panel>>

\* reader.read() rejected: the abort signal fired while the read was
\* pending, or the transport failed.  The rejection leaves through finally.
ReaderFailed ==
    /\ decoder.status = "reading"
    /\ decoder' = Release([decoder EXCEPT !.status = "failed"])
    /\ UNCHANGED <<sessionVars, client, reducer, panel>>

\* The consumer left its for-await loop (a break, or a throw of its body):
\* return() completes the generator at the yield, through finally.
ReaderReturn ==
    /\ decoder.status = "suspended"
    /\ decoder' = Release([decoder EXCEPT !.status = "returned"])
    /\ UNCHANGED <<sessionVars, client, reducer, panel>>

InitReader ==
    /\ InitSessions
    /\ client = IdleClient
    /\ reducer = IdleReducer
    /\ panel = IdlePanel
    /\ \E input \in ReaderInputs :
          decoder = [IdleDecoder EXCEPT !.input = input, !.status = "reading"]

NextReader ==
    \/ \E n \in 1..MaxReaderBytes : ReaderRead(n)
    \/ ReaderResume
    \/ ReaderDone
    \/ ReaderFailed
    \/ ReaderReturn

SpecReader == InitReader /\ [][NextReader]_vars

(***************************************************************************)
(* fetchApi: the request client.  One action is one continuation of the    *)
(* async function: the call up to its first await, the settlement of an    *)
(* attempt's fetch (with the catch block that follows a rejection, up to   *)
(* the backoff await), and the end of a backoff wait.                      *)
(***************************************************************************)
MaxRetries == 3

MAX_RETRIES == 2

HttpErrorStatuses == {400, 404, 429, 500, 503}

Outcome(kind, status) == [kind |-> kind, status |-> status]

IsRetryable(status) == status >= 500 \/ status = 429

RECURSIVE Pow2(_)
Pow2(n) == IF n = 0 THEN 1 ELSE 2 * Pow2(n - 1)

\* A delay that grows by the base with every attempt.
BackoffDelayLinear(attempt) == (attempt + 1) * 500

BackoffDelay(attempt) == Pow2(attempt) * 500

\* A throw that leaves the function.
Throw(c, err) == [c EXCEPT !.pc = "thrown", !.error = err]

\* The head of the for loop: the next attempt with its own controller and
\* timer, or the throw after the loop.
NextAttempt(c) ==
    IF c.attempt + 1 <= c.retries
    THEN [c EXCEPT !.attempt = @ + 1, !.timer = c.attempt + 1,
                   !.pc = "fetching"]
    ELSE Throw(c, IF c.lastError # NoApiError THEN c.lastError
                  ELSE ApiError(0, FALSE))

\* The end of the catch block: the backoff wait, when an attempt is left.
Backoff(c) ==
    IF c.attempt < c.retries
    THEN [c EXCEPT !.pc = "backoff",
                   !.waits = Append(@, BackoffDelay(c.attempt))]
    ELSE NextAttempt(c)

\* A catch block that never retries a status the server reported.
CatchThrowsAnyStatus(c, err) ==
    LET cleared == [c EXCEPT !.timer = NoTimer]
    IN  IF err.name = "ApiError"
        THEN Throw(cleared, err)
        ELSE IF err.name = "AbortError"
        THEN Throw(cleared, ApiError(408, TRUE))
        ELSE IF c.attempt = c.retries
        THEN Throw(cleared, ApiError(0, FALSE))
        ELSE Backoff([cleared EXCEPT !.lastError = err])

\* A catch block that retries every ApiError.
CatchRetriesAnyStatus(c, err) ==
    LET cleared == [c EXCEPT !.timer = NoTimer]
    IN  IF err.name = "ApiError"
        THEN IF c.attempt = c.retries
             THEN Throw(cleared, err)
             ELSE Backoff([cleared EXCEPT !.lastError = err])
        ELSE IF err.name = "AbortError"
        THEN Throw(cleared, ApiError(408, TRUE))
        ELSE IF c.attempt = c.retries
        THEN Throw(cleared, ApiError(0, FALSE))
        ELSE Backoff([cleared EXCEPT !.lastError = err])

\* A catch block that gives up on the first network failure.
CatchThrowsNetwork(c, err) ==
    LET cleared == [c EXCEPT !.timer = NoTimer]
    IN  IF err.name = "ApiError"
        THEN IF ~err.isRetryable \/ c.attempt = c.retries
             THEN Throw(cleared, err)
             ELSE Backoff([cleared EXCEPT !.lastError = err])
        ELSE IF err.name = "AbortError"
        THEN Throw(cleared, ApiError(408, TRUE))
        ELSE Throw(cleared, ApiError(0, FALSE))

\* The catch block for the error err thrown in the try block.
Catch(c, err) ==
    LET cleared == [c EXCEPT !.timer = NoTimer]
    IN  IF err.name = "ApiError"
        THEN IF ~err.isRetryable \/ c.attempt = c.retries
             THEN Throw(cleared, err)
             ELSE Backoff([cleared EXCEPT !.lastError = err])
        ELSE IF err.name = "AbortError"
        THEN Throw(cleared, ApiError(408, TRUE))
        ELSE IF c.attempt = c.retries
        THEN Throw(cleared, ApiError(0, FALSE))
        ELSE Backoff([cleared EXCEPT !.lastError = err])

Logged(c, kind, status) == [c EXCEPT !.log = Append(@, Outcome(kind, status))]

\* fetchApi(endpoint, {retries}): the first attempt is under way.
fetchApi(retries) ==
    /\ client.pc = "idle"
    /\ client' = [client EXCEPT !.retries = retries, !.attempt = 0,
                                !.timer = 0, !.pc = "fetching"]
    /\ UNCHANGED <<sessionVars, decoder, reducer, panel>>

\* The attempt's fetch resolved with an ok response whose body decodes.
ResponseOk ==
    /\ client.pc = "fetching"
    /\ client' = [Logged(client, "response", 200) EXCEPT !.timer = NoTimer,
                                                         !.pc = "returned"]
    /\ UNCHANGED <<sessionVars, decoder, reducer, panel>>

\* The attempt's fetch resolved with an ok response whose body is no JSON
\* document: the promise of response.json() is returned without an await,
\* so its rejection is the rejection of the call.
ResponseOkBadBody ==
    /\ client.pc = "fetching"
    /\ client' = Throw([Logged(client, "badbody", 200) EXCEPT !.timer = NoTimer],
                       RawError("SyntaxError"))
    /\ UNCHANGED <<sessionVars, decoder, reducer, panel>>

\* The attempt's fetch resolved with a response that is not ok.
ResponseNotOk(status) ==
    /\ client.pc = "fetching"
    /\ client' = Catch(Logged(client, "response", status),
                       ApiError(status, IsRetryable(status)))
    /\ UNCHANGED <<sessionVars, decoder, reducer, panel>>

\* The attempt's timer fired: controller.abort() rejects the fetch.
TimerFires ==
    /\ client.pc = "fetching"
    /\ client.timer = client.attempt
    /\ client' = Catch(Logged(client, "timeout", NoStatus), RawError("AbortError"))
    /\ UNCHANGED <<sessionVars, decoder, reducer, panel>>

\* The attempt's fetch rejected: the transport failed.
FetchRejects ==
    /\ client.pc = "fetching"
    /\ client' = Catch(Logged(client, "network", NoStatus), RawError("TypeError"))
    /\ UNCHANGED <<sessionVars, decoder, reducer, panel>>

\* The backoff wait is over.
BackoffElapsed ==
    /\ client.pc = "backoff"
    /\ client' = NextAttempt(client)
    /\ UNCHANGED <<sessionVars, decoder, reducer, panel>>

InitClient ==
    /\ InitSessions
    /\ decoder = IdleDecoder
    /\ client = IdleClient
    /\ reducer = IdleReducer
    /\ panel = IdlePanel

NextClient ==
    \/ \E retries \in 0..MaxRetries : fetchApi(retries)
    \/ ResponseOk
    \/ ResponseOkBadBody
    \/ \E status \in HttpErrorStatuses : ResponseNotOk(status)
    \/ TimerFires
    \/ FetchRejects
    \/ BackoffElapsed

SpecClient == InitClient /\ [][NextClient]_vars

\* Streams that deliver events after their done event.
NextDone ==
    \/ \E s \in Sessions : SelectSession(s)
    \/ \E content \in Texts :
          Len(streams) < MaxDoneSends /\ sendMessageStream(content)
    \/ \E k \in 1..MaxDoneSends : StreamChunkUpTo(k, DoneEvents, MaxDoneEvents)
    \/ \E k \in 1..MaxDoneSends : StreamClose(k)

SpecDone == Init /\ [][NextDone]_vars

\* The events of a turn that runs one tool and answers.
ToolTurn ==
    <<ToolStart("Search", "t1"), ToolInputDelta("t1", "{q:"),
      ToolInputDelta("t1", "x}"), Event("tool_result", "found"),
      Event("text_delta", "Found it"), Event("done", "")>>

\* The events of a turn that starts two tools around a legacy tool_use
\* event.
LegacyTurn ==
    <<ToolStart("Search", "t1"), LegacyToolUse(LegacyEntry),
      ToolStart("Read", "t2"), Event("tool_result", "found"),
      Event("done", "")>>

\* The events of a turn that answers in pieces around a text event.
TextTurn ==
    <<Event("text_delta", "a"), Event("text", "T"), Event("text_delta", "b"),
      Event("text_delta", "a")>>

TurnScripts == { ToolTurn, LegacyTurn, TextTurn }

\* Sends whose streams deliver the events of a whole turn, on sessions
\* whose history request may still be under way.
NextTurn ==
    \/ \E s \in Sessions : SelectSession(s)
    \/ \E s \in Sessions : HistoryLoaded(s, "effect")
    \/ \E content \in Texts :
          Len(streams) < MaxTurnSends /\ sendMessageStream(content)
    \/ \E k \in 1..MaxTurnSends : \E script \in TurnScripts :
          StreamScript(k, script)
    \/ \E k \in 1..MaxTurnSends : StreamClose(k)
    \/ \E k \in 1..MaxTurnSends : StreamError(k)

SpecTurn == Init /\ [][NextTurn]_vars

\* A fetch settles or its timer fires, and a backoff timer fires.
SpecClientFair == SpecClient /\ WF_vars(NextClient)

(***************************************************************************)
(* The reducer on its own: the body of the read loop applied, event after  *)
(* event, to one transcript that nothing else writes to.                   *)
(***************************************************************************)
MaxFolds == 4
\* Bound on the tool entries of the message the panel renders.
MaxTools == 3

ReducerEvents ==
    { Event("text", "T"), Event("text_delta", "a"), Event("text_delta", "b"),
      Event("thinking_start", ""), Event("thinking_delta", "t"),
      ToolStart("Search", "t1"), ToolStart("Read", "t2"),
      ToolInputDelta("t1", "{q:"), ToolInputDelta("t1", "x}"),
      ToolInputDelta("t3", "x}"),
      Event("tool_use_end", ""), Event("tool_result", "found"),
      LegacyToolUse(LegacyEntry), Heartbeat(1, 1), Event("done", "") }

\* The transcripts a fold can start from: none, a transcript that ends
\* with a user message, and one that ends with the placeholder of a turn.
ReducerTranscripts ==
    { <<>>,
      <<HistoryMessage("assistant", "old", "A"), UserMessage("hello", "A")>>,
      <<UserMessage("hello", "A"), Placeholder("A")>> }

\* A loop whose heartbeat branch also ends the streaming of the message.
FoldEventHeartbeatEnds(chunk) ==
    /\ Len(reducer.log) < MaxFolds
    /\ reducer' = [reducer EXCEPT
                      !.transcript =
                          IF chunk.type = "heartbeat"
                          THEN Fold(Fold(@, chunk), Event("done", ""))
                          ELSE Fold(@, chunk),
                      !.log = Append(@, chunk)]
    /\ UNCHANGED <<sessionVars, decoder, client, panel>>

\* One turn of the for-await loop for the event chunk.
FoldEvent(chunk) ==
    /\ Len(reducer.log) < MaxFolds
    /\ reducer' = [reducer EXCEPT !.transcript = Fold(@, chunk),
                                  !.log = Append(@, chunk)]
    /\ UNCHANGED <<sessionVars, decoder, client, panel>>

InitReducer ==
    /\ InitSessions
    /\ decoder = IdleDecoder
    /\ client = IdleClient
    /\ panel = IdlePanel
    /\ \E t \in ReducerTranscripts :
          reducer = [before |-> t, transcript |-> t, log |-> <<>>]

NextReducer == \E chunk \in ReducerEvents : FoldEvent(chunk)

SpecReducer == InitReducer /\ [][NextReducer]_vars

(***************************************************************************)
(* ChatPanel: the todo list shown for a message is read from its tool list *)
(***************************************************************************)
\* input.todos of a tool entry: absent, a value that is no array, or an
\* array of items.
TodosValues ==
    { [kind |-> "absent", items |-> <<>>],
      [kind |-> "string", items |-> <<>>],
      [kind |-> "list", items |-> <<>>],
      [kind |-> "list", items |-> <<"a">>],
      [kind |-> "list", items |-> <<"a", "b">>] }

\* The input of a tool entry: undefined, or an object.
ToolInputs ==
    { [defined |-> FALSE, todos |-> [kind |-> "absent", items |-> <<>>]] }
    \cup { [defined |-> TRUE, todos |-> v] : v \in TodosValues }

\* The elements of a tool_use array: undefined, or an entry.
PanelTools ==
    { [defined |-> FALSE, tool |-> "",
       input |-> [defined |-> FALSE, todos |-> [kind |-> "absent", items |-> <<>>]]] }
    \cup { [defined |-> TRUE, tool |-> n, input |-> i] :
              n \in {"TodoWrite", "Read"}, i \in ToolInputs }

\* The result of the extraction: null, or the array that was found.
Todos(found, items) == [read |-> TRUE, found |-> found, items |-> items]

\* An extraction that returns the todos of the first entry that has them.
extractFirstTodos(isArray, tools) ==
    LET having == {i \in 1..Len(tools) :
                     /\ tools[i].defined
                     /\ tools[i].tool = "TodoWrite"
                     /\ tools[i].input.defined
                     /\ tools[i].input.todos.kind = "list"}
    IN  IF ~isArray \/ having = {} THEN Todos(FALSE, <<>>)
        ELSE LET first == CHOOSE i \in having : \A k \in having : i <= k
             IN  Todos(TRUE, tools[first].input.todos.items)

\* The for loop of extractLatestTodos from index i downwards.
RECURSIVE ScanBackward(_, _)
ScanBackward(tools, i) ==
    IF i < 1 THEN Todos(FALSE, <<>>)
    ELSE LET tool == tools[i]
         IN  IF /\ tool.defined
                /\ tool.tool = "TodoWrite"
                /\ tool.input.defined
                /\ tool.input.todos.kind = "list"
             THEN Todos(TRUE, tool.input.todos.items)
             ELSE ScanBackward(tools, i - 1)

extractLatestTodos(isArray, tools) ==
    IF ~isArray THEN Todos(FALSE, <<>>) ELSE ScanBackward(tools, Len(tools))

\* The message gained a tool entry: the next render reads the todos again.
ToolAdded(tool) ==
    /\ panel.isArray
    /\ Len(panel.tools) < MaxTools
    /\ panel' = [panel EXCEPT !.tools = Append(@, tool), !.todos = NoTodos]
    /\ UNCHANGED <<sessionVars, decoder, client, reducer>>

\* A render of the message: extractLatestTodos(message.tool_use).
Render ==
    /\ ~panel.todos.read
    /\ panel' = [panel EXCEPT
                    !.todos = extractLatestTodos(panel.isArray, panel.tools)]
    /\ UNCHANGED <<sessionVars, decoder, client, reducer>>

\* A message with or without a tool_use array.
InitPanel ==
    /\ InitSessions
    /\ decoder = IdleDecoder
    /\ client = IdleClient
    /\ reducer = IdleReducer
    /\ \E isArray \in BOOLEAN : panel = [IdlePanel EXCEPT !.isArray = isArray]

NextPanel ==
    \/ \E tool \in PanelTools : ToolAdded(tool)
    \/ Render

SpecPanel == InitPanel /\ [][NextPanel]_vars

(***************************************************************************)
(* Specifications                                                          *)
(***************************************************************************)
\* Two sessions: selection, history load, send, the read loops and stop.
Next ==
    \/ \E s \in Sessions : SelectSession(s)
    \/ \E s \in Sessions : HistoryLoaded(s, "effect")
    \/ \E content \in Texts : Len(streams) < MaxSends /\ sendMessageStream(content)
    \/ \E k \in 1..MaxSends : StreamChunk(k, StreamEvents)
    \/ \E k \in 1..MaxSends : StreamClose(k)
    \/ \E k \in 1..MaxSends : StreamError(k)
    \/ \E k \in 1..MaxSends : StreamAborted(k)
    \/ stopStreaming

Spec == Init /\ [][Next]_vars

\* One session, more sends: a user who stays on session "A".
NextResend ==
    \/ SelectSession("A")
    \/ HistoryLoaded("A", "effect")
    \/ \E content \in Texts : Len(streams) < MaxResends /\ sendMessageStream(content)
    \/ \E k \in 1..MaxResends : StreamChunk(k, ResendEvents)
    \/ \E k \in 1..MaxResends : StreamClose(k)
    \/ \E k \in 1..MaxResends : StreamError(k)
    \/ \E k \in 1..MaxResends : StreamAborted(k)
    \/ stopStreaming

SpecResend == Init /\ [][NextResend]_vars

\* Two sessions that can also be deleted from the session list.
NextDelete ==
    \/ \E s \in Sessions : SelectSession(s)
    \/ \E s \in Sessions : HistoryLoaded(s, "effect")
    \/ \E content \in Texts : Len(streams) < MaxSends /\ sendMessageStream(content)
    \/ \E k \in 1..MaxSends : StreamChunk(k, StreamEvents)
    \/ \E k \in 1..MaxSends : StreamClose(k)
    \/ \E k \in 1..MaxSends : StreamError(k)
    \/ \E k \in 1..MaxSends : StreamAborted(k)
    \/ stopStreaming
    \/ \E s \in Sessions : deleteSession(s)

SpecDelete == Init /\ [][NextDelete]_vars

\* Two sessions whose streams ask for permissions, and the decisions; the
\* history requests of these runs stay unanswered.
NextPermissions ==
    \/ \E s \in Sessions : SelectSession(s)
    \/ \E content \in Texts :
          Len(streams) < MaxPermissionSends /\ sendMessageStream(content)
    \/ \E k \in 1..MaxPermissionSends : StreamChunk(k, PermissionStreamEvents)
    \/ \E k \in 1..MaxPermissionSends : StreamClose(k)
    \/ \E k \in 1..MaxPermissionSends : StreamError(k)
    \/ \E k \in 1..MaxPermissionSends : StreamAborted(k)
    \/ stopStreaming
    \/ \E r \in PermissionIds : respondToPermission(r)
    \/ \E s \in Sessions : \E r \in PermissionIds : PermissionAnswered(s, r)
    \/ \E s \in Sessions : \E r \in PermissionIds : PermissionFailed(s, r)

SpecPermissions == Init /\ [][NextPermissions]_vars

\* Two sessions whose read loops deliver several events each.
NextFold ==
    \/ \E s \in Sessions : SelectSession(s)
    \/ \E s \in Sessions : HistoryLoaded(s, "effect")
    \/ \E content \in Texts : Len(streams) < MaxFoldSends /\ sendMessageStream(content)
    \/ \E k \in 1..MaxFoldSends : StreamChunkUpTo(k, FoldEvents, MaxFoldEvents)
    \/ \E k \in 1..MaxFoldSends : StreamClose(k)
    \/ \E k \in 1..MaxFoldSends : StreamAborted(k)

SpecFold == Init /\ [][NextFold]_vars

\* The event loop delivers a pending AbortError, and the source of a stream
\* that is being read closes in the end.
Fairness ==
    \A k \in 1..MaxSends : WF_vars(StreamClose(k)) /\ WF_vars(StreamAborted(k))

SpecFair == Init /\ [][Next]_vars /\ Fairness

(***************************************************************************)
(* Vocabulary of the properties                                            *)
(***************************************************************************)
\* The read loops of session s whose signal has not fired.
LiveOn(s) ==
    {k \in 1..Len(streams) : streams[k].sid = s /\ streams[k].status = "live"}

\* The read loops of session s that have not reached the end of their
\* finally block.
InFlight(s) ==
    {k \in 1..Len(streams) : streams[k].sid = s /\ streams[k].status # "idle"}

\* Read loop k was started and has not ended.
Pending(k) == k <= Len(streams) /\ streams[k].status # "idle"

\* A step in which read loop k ends: source closed, genuine error, or the
\* rejection of a cancelled read.
Ends(k) == StreamClose(k) \/ StreamError(k) \/ StreamAborted(k)

\* Map m2 holds for key b what map m1 holds for it.
SameEntry(m1, m2, b) ==
    /\ MapHas(m1, b) <=> MapHas(m2, b)
    /\ MapHas(m1, b) => m1[b] = m2[b]

\* A step that selects session s.
Selects(s) == sessionId' = s /\ sessionId # s

\* A step in which sendMessageStream is called on session s.
Sends(s) == sessionId = s /\ \E content \in Texts : sendMessageStream(content)

\* A step in which stopStreaming is called on session s.
Stops(s) == sessionId = s /\ stopStreaming

\* A step of an operation or event that belongs to session a.
OperationOn(a) ==
    \/ SelectSession(a)
    \/ HistoryLoaded(a, "effect")
    \/ Sends(a)
    \/ Stops(a)
    \/ \E k \in 1..Len(streams) :
          /\ streams[k].sid = a
          /\ \/ StreamChunk(k, StreamEvents)
             \/ StreamClose(k)
             \/ StreamError(k)
             \/ StreamAborted(k)

\* Transcript t2 has the length of t1 and the content, thinking and tool_use
\* of each of its messages.
SamePartial(t1, t2) ==
    /\ Len(t2) = Len(t1)
    /\ \A i \in 1..Len(t1) :
          /\ t2[i].content = t1[i].content
          /\ t2[i].thinking = t1[i].thinking
          /\ t2[i].tool_use = t1[i].tool_use

(***************************************************************************)
(* C1: an operation or event of session A leaves transcript[B],            *)
(* streaming[B], cancelToken[B] and pendingPermissions[B] unchanged for    *)
(* every other session B, and transcript[B] never holds a message that was *)
(* sent, streamed or fetched on another session.                           *)
(***************************************************************************)
C1_SessionIsolation ==
    [][\A a \in Sessions : \A b \in Sessions \ {a} :
          /\ OperationOn(a) =>
                /\ SameEntry(messageCache, messageCache', b)
                /\ SameEntry(streamingState, streamingState', b)
                /\ SameEntry(abortControllers, abortControllers', b)
                /\ SameEntry(pendingPermissions, pendingPermissions', b)
          /\ MapHas(messageCache', b) =>
                \A i \in 1..Len(messageCache'[b]) : messageCache'[b][i].origin = b
      ]_vars

(***************************************************************************)
(* C2: in every transcript only the last message can have isStreaming set  *)
(* (so at most one message has it).                                        *)
(***************************************************************************)
C2_OnlyLastIsStreaming ==
    \A s \in DOMAIN messageCache :
        \A i \in 1..Len(messageCache[s]) :
            messageCache[s][i].isStreaming => i = Len(messageCache[s])

(***************************************************************************)
(* C3: a genuine stream error on session S puts transcript[S] back to its  *)
(* value before the send, and the error is surfaced.                       *)
(***************************************************************************)
C3_ErrorRollsBackTurn ==
    [][\A k \in 1..Len(streams) :
          StreamError(k) =>
              /\ MapGetOr(messageCache', streams[k].sid, <<>>) = streams[k].before
              /\ error' = ErrorOf("stream", streams[k].sid)
      ]_vars

(***************************************************************************)
(* C4: stop streaming on S while a stream is in flight cancels it, sets    *)
(* streaming[S] false and the last assistant message's isStreaming false,  *)
(* and neither the stop nor the termination of the cancelled stream changes*)
(* the transcript's length or the content, thinking or tool_use folded in. *)
(***************************************************************************)
C4_StopKeepsPartial ==
    [][\A s \in Sessions :
          /\ (Stops(s) /\ LiveOn(s) # {}) =>
                /\ \A k \in LiveOn(s) : streams'[k].status = "aborted"
                /\ MapGetOr(streamingState', s, TRUE) = FALSE
                /\ MapHas(messageCache, s) /\ MapHas(messageCache', s)
                /\ SamePartial(messageCache[s], messageCache'[s])
                /\ LET t == messageCache'[s]
                   IN  (Len(t) > 0 /\ t[Len(t)].role = "assistant")
                          => ~t[Len(t)].isStreaming
          /\ \A k \in 1..Len(streams) :
                (streams[k].sid = s /\ StreamAborted(k))
                    => messageCache' = messageCache
      ]_vars

(***************************************************************************)
(* C5: send on S makes transcript[S] the current transcript[S] followed by *)
(* the user message and the assistant placeholder, and no event folded     *)
(* afterwards changes the length or any message but the last.              *)
(***************************************************************************)
C5_SendAppendsTurn ==
    [][/\ \A s \in Sessions : \A content \in Texts :
            (sessionId = s /\ sendMessageStream(content)) =>
                messageCache'[s] =
                    MapGetOr(messageCache, s, <<>>)
                        \o <<UserMessage(content, s), Placeholder(s)>>
       /\ \A k \in 1..Len(streams) :
            StreamChunk(k, StreamEvents) =>
                LET t1 == MapGetOr(messageCache, streams[k].sid, <<>>)
                    t2 == MapGetOr(messageCache', streams[k].sid, <<>>)
                IN  /\ Len(t2) = Len(t1)
                    /\ \A i \in 1..(Len(t1) - 1) : t2[i] = t1[i]
      ]_vars

(***************************************************************************)
(* C6: no history-fetch result is written to transcript[S] while a stream  *)
(* of S is in flight, and selecting S while streaming[S] is true issues no *)
(* fetch and shows the cached transcript.                                  *)
(***************************************************************************)
C6_NoFetchOverStream ==
    [][\A s \in Sessions :
          /\ HistoryLoaded(s, "effect") => LiveOn(s) = {}
          /\ (Selects(s) /\ MapGetOr(streamingState, s, FALSE)) =>
                /\ fetches' = fetches
                /\ MapHas(messageCache, s) => messages' = messageCache[s]
      ]_vars

(***************************************************************************)
(* C7: send on S while S has a stream in flight cancels that stream, and   *)
(* leaves the cancel tokens, streaming flags and streams of every other    *)
(* session as they are.                                                    *)
(***************************************************************************)
C7_ResendCancelsPrevious ==
    [][\A s \in Sessions :
          Sends(s) =>
              /\ \A k \in LiveOn(s) : streams'[k].status = "aborted"
              /\ \A b \in Sessions \ {s} :
                    /\ SameEntry(abortControllers, abortControllers', b)
                    /\ SameEntry(streamingState, streamingState', b)
                    /\ \A k \in 1..Len(streams) :
                          streams[k].sid = b => streams'[k] = streams[k]
      ]_vars

(***************************************************************************)
(* C8: stop streaming and a superseding send fire the signal of the stream *)
(* that holds the session's controller, and once its signal has fired a    *)
(* stream folds no further event: it stays cancelled until it terminates,  *)
(* its event count stands still, and no step it takes changes a transcript *)
(* or a permission queue.                                                  *)
(***************************************************************************)
C8_NoFoldAfterCancel ==
    [][\A k \in 1..Len(streams) :
          /\ ( /\ streams[k].status = "live"
               /\ MapHas(abortControllers, streams[k].sid)
               /\ abortControllers[streams[k].sid] = k
               /\ Stops(streams[k].sid) \/ Sends(streams[k].sid) )
                => streams'[k].status = "aborted"
          /\ streams[k].status = "aborted" =>
                /\ streams'[k].status \in {"aborted", "idle"}
                /\ streams'[k].status = "aborted" => streams'[k].n = streams[k].n
                /\ streams'[k] # streams[k] =>
                      /\ messageCache' = messageCache
                      /\ pendingPermissions' = pendingPermissions
      ]_vars

\* A stream was cancelled after it had folded an event.
C8_Witness ==
    \E k \in 1..Len(streams) : streams[k].status = "aborted" /\ streams[k].n > 0

(***************************************************************************)
(* C9: selecting a session cancels no stream, and re-selecting a session   *)
(* that is mid-stream exposes its transcript as it stands in the cache.    *)
(***************************************************************************)
C9_ReselectShowsLiveTranscript ==
    [][\A a \in Sessions :
          (Selects(a) /\ LiveOn(a) # {}) =>
              /\ streams' = streams
              /\ MapHas(messageCache, a)
              /\ messages' = messageCache[a]
      ]_vars

(***************************************************************************)
(* C10 as written: selecting S with a cached transcript exposes it and     *)
(* issues no fetch; a fetch is issued only when nothing is cached, and its *)
(* result populates transcript[S].                                         *)
(***************************************************************************)
C10_CachedSelectSkipsFetch ==
    [][\A s \in Sessions :
          /\ Selects(s) =>
                IF MapHas(messageCache, s)
                THEN messages' = messageCache[s] /\ fetches' = fetches
                ELSE fetches'[<<s, "effect">>] = fetches[<<s, "effect">>] + 1
          /\ HistoryLoaded(s, "effect") =>
                MapHas(messageCache', s) /\ messageCache'[s] \in Histories(s)
      ]_vars

(***************************************************************************)
(* C10 amended: selecting S issues a history fetch whenever streaming[S]   *)
(* is not true, whether or not a transcript is cached for S; only when     *)
(* streaming[S] is true is the cached transcript exposed at once, with no  *)
(* fetch; the result of a fetch populates transcript[S].                   *)
(***************************************************************************)
C10_SelectFetchesUnlessStreaming ==
    [][\A s \in Sessions :
          /\ Selects(s) =>
                IF MapGetOr(streamingState, s, FALSE)
                THEN /\ fetches' = fetches
                     /\ messages' = MapGetOr(messageCache, s, messages)
                ELSE fetches'[<<s, "effect">>] = fetches[<<s, "effect">>] + 1
          /\ HistoryLoaded(s, "effect") =>
                MapHas(messageCache', s) /\ messageCache'[s] \in Histories(s)
      ]_vars

\* A session with a cached transcript was selected while it was not
\* streaming, and a history fetch was issued for it all the same.
C10_Witness ==
    /\ sessionId # NoSession
    /\ MapHas(messageCache, sessionId)
    /\ ~MapGetOr(streamingState, sessionId, FALSE)
    /\ fetches[<<sessionId, "effect">>] > 0
    /\ messages # messageCache[sessionId]

C12_DeleteEvictsAllMaps ==
    [][\A s \in Sessions :
          deleteSession(s) =>
              /\ ~MapHas(messageCache', s)
              /\ ~MapHas(streamingState', s)
              /\ ~MapHas(abortControllers', s)
              /\ ~MapHas(pendingPermissions', s)
      ]_vars

\* The queue of session s in the map m of pending permissions.
QueueOf(m, s) == MapGetOr(m, s, <<>>)

(***************************************************************************)
(* C13: when the decision round-trip of respond-to-permission on S fails,  *)
(* pendingPermissions[S] is unchanged, the request can be answered again,  *)
(* and the error is surfaced.                                              *)
(***************************************************************************)
C13_FailedDecisionKeepsRequest ==
    [][\A s \in Sessions : \A r \in PermissionIds :
          PermissionFailed(s, r) =>
              /\ pendingPermissions' = pendingPermissions
              /\ permissionRequests' = permissionRequests
              /\ <<s, r>> \notin decisions'
              /\ error' = ErrorOf("permission", s)
      ]_vars

\* A decision has failed on a session whose queue still holds a request.
C13_Witness ==
    \E s \in Sessions :
        /\ error = ErrorOf("permission", s)
        /\ Len(QueueOf(pendingPermissions, s)) > 0
        /\ \A r \in PermissionIds : <<s, r>> \notin decisions

(***************************************************************************)
(* C14: a successful respond-to-permission for request r on S removes from *)
(* the latest pendingPermissions[S] exactly the entries with r's id and    *)
(* keeps every other entry in place, whichever request is answered first   *)
(* and whatever other decisions are in flight, and it leaves the queues of *)
(* the other sessions alone.                                               *)
(***************************************************************************)
C14_AnswerRemovesExactlyOne ==
    [][\A s \in Sessions : \A r \in PermissionIds :
          PermissionAnswered(s, r) =>
              /\ QueueOf(pendingPermissions', s) =
                    SelectSeq(QueueOf(pendingPermissions, s),
                              LAMBDA q : q.request_id # r)
              /\ \A b \in Sessions \ {s} :
                    SameEntry(pendingPermissions, pendingPermissions', b)
      ]_vars

\* Both streams ran on one session and each delivered a permission request
\* (no text was folded); one of the two requests has been answered and the
\* other is still pending.
C14_Witness ==
    \E s \in Sessions :
        /\ Len(streams) = 2
        /\ \A k \in 1..2 : streams[k].sid = s /\ streams[k].n = 1
        /\ MapHas(messageCache, s)
        /\ \A i \in 1..Len(messageCache[s]) :
              messageCache[s][i].role = "assistant" => messageCache[s][i].content = ""
        /\ Len(QueueOf(pendingPermissions, s)) = 1

\* The permission requests a chunk carries, in the order of its frames, and
\* the frames of the chunk that are no permission request.
RequestsIn(frames) ==
    LET IsRequest(chunk) == chunk.type = "permission_request"
        requests == SelectSeq(frames, IsRequest)
    IN  [i \in 1..Len(requests) |-> PermissionOf(requests[i])]

OthersIn(frames) ==
    LET IsOther(chunk) == chunk.type # "permission_request"
    IN  SelectSeq(frames, IsOther)

(***************************************************************************)
(* C15: a request enters pendingPermissions[S] only by a                   *)
(* permission_request event of a stream of S, which appends it and leaves  *)
(* the transcripts unchanged (a chunk appends the requests of its frames   *)
(* in order, and changes the transcript of S only by folding its other     *)
(* frames), and leaves it only by a successful decision                    *)
(* round-trip for its request id; stop streaming, the end of a stream, a   *)
(* rollback, a new send and a selection never change the queue.            *)
(***************************************************************************)
C15_PermissionLifecycle ==
    [][\A s \in Sessions :
          LET before == QueueOf(pendingPermissions, s)
              after == QueueOf(pendingPermissions', s)
          IN  after # before =>
                \/ \E k \in 1..Len(streams) :
                      /\ streams[k].sid = s
                      /\ StreamChunk(k, PermissionStreamEvents)
                      /\ \E frames \in Chunks(PermissionStreamEvents, MaxEvents) :
                            /\ streams'[k].n = streams[k].n + Len(frames)
                            /\ RequestsIn(frames) # <<>>
                            /\ after = before \o RequestsIn(frames)
                            /\ IF OthersIn(frames) = <<>>
                               THEN messageCache' = messageCache
                               ELSE messageCache' =
                                      MapSet(messageCache, s,
                                             FoldAll(MapGetOr(messageCache, s, <<>>),
                                                     OthersIn(frames)))
                \/ \E r \in PermissionIds :
                      /\ PermissionAnswered(s, r)
                      /\ \E i \in 1..Len(before) : before[i].request_id = r
                      /\ \A i \in 1..Len(after) : after[i].request_id # r
      ]_vars

\* A request is still pending on a session whose stream has ended and that
\* is not the selected one.
C15_Witness ==
    \E s \in Sessions :
        /\ Len(QueueOf(pendingPermissions, s)) > 0
        /\ MapHas(streamingState, s)
        /\ InFlight(s) = {}
        /\ sessionId # s

(***************************************************************************)
(* C16: the list of pending permissions exposed for the selected session   *)
(* always equals pendingPermissions[selected session].                     *)
(***************************************************************************)
C16_ViewIsSelectedQueue ==
    permissionRequests =
        IF sessionId = NoSession THEN <<>> ELSE QueueOf(pendingPermissions, sessionId)

(***************************************************************************)
(* C17: an error raised by a stream, a rollback or a permission decision   *)
(* of session A is exposed only while A is the selected session: no step   *)
(* sets the exposed error to a failure of a session that is not selected.  *)
(***************************************************************************)
C17_ErrorStaysWithItsSession ==
    [][(error' # error /\ error' # NoError) => error'.origin = sessionId']_vars

(***************************************************************************)
(* C18: after events e1..en of a turn of S have been delivered,            *)
(* transcript[S] equals the sequential reducer fold of e1..en over the     *)
(* transcript the send wrote.                                              *)
(***************************************************************************)
C18_TranscriptIsFoldOfTurn ==
    [][\A k \in 1..Len(streams) :
          StreamChunkUpTo(k, FoldEvents, MaxFoldEvents) =>
              MapGetOr(messageCache', streams[k].sid, <<>>) = streams'[k].turn
      ]_vars

\* The bytes the read loop has read so far.
Consumed == SubSeq(decoder.input, 1, decoder.pos)

\* The lines of the byte sequence s that a separator ends.
CompleteLines(s) == SubSeq(Split(s), 1, Len(Split(s)) - 1)

(***************************************************************************)
(* C19: however the bytes read so far were split into chunks, the decoder  *)
(* has yielded what it yields when it is given the same bytes as one       *)
(* chunk: the frames that carry the prefix and parse, in the order of      *)
(* their bytes, each once.                                                 *)
(***************************************************************************)
C19_ChunkBoundaryIndependence ==
    /\ decoder.yielded = Decode([IdleDecoder EXCEPT !.status = "reading"],
                                Consumed).yielded
    /\ decoder.buffer = Decode([IdleDecoder EXCEPT !.status = "reading"],
                               Consumed).buffer

\* Two frames were yielded from a source that was read in chunks that cut
\* through a separator and through a frame.
C19_Witness ==
    /\ decoder.input = <<DataPrefix, "j", LF, LF, DataPrefix, "k", LF, LF>>
    /\ decoder.yielded = <<"j", "k">>
    /\ decoder.status = "closed"

(***************************************************************************)
(* C20: a frame that does not parse, or that lacks the data prefix, is     *)
(* dropped: the read loop does not fail and goes on reading, and what it   *)
(* has yielded is exactly the parsed values of the complete lines that     *)
(* carry the prefix and parse, in order, the valid frames after a dropped  *)
(* one included.                                                           *)
(***************************************************************************)
C20_BadFrameIsDropped ==
    /\ decoder.status \in {"reading", "closed"}
    /\ (decoder.status = "closed" /\ decoder.input # <<>>)
          => decoder.pos = Len(decoder.input)
    /\ LET valid == SelectSeq(CompleteLines(Consumed),
                              LAMBDA line : StartsWithData(line) /\ Parses(line))
       IN  /\ Len(decoder.yielded) = Len(valid)
           /\ \A i \in 1..Len(valid) : decoder.yielded[i] = Parsed(valid[i])

\* The source held a line that does not parse, or a line without the
\* prefix, before a valid frame, and the valid frame was yielded.
C20_Witness ==
    /\ \E bad \in {<<DataPrefix>>, <<DataPrefix, "j", "k">>, <<"k">>} :
          decoder.input = bad \o <<LF, LF, DataPrefix, "j", LF, LF>>
    /\ decoder.yielded = <<"j">>

(***************************************************************************)
(* C21: on every exit path of the decoder (source closed, a read rejected  *)
(* by the cancellation signal or by a failure, the consumer leaving the    *)
(* iteration at a yield) the reader has been released, exactly once, and   *)
(* no frame is yielded after the release.                                  *)
(***************************************************************************)
C21_ReaderAlwaysReleased ==
    /\ [](decoder.status \in {"closed", "failed", "returned"} <=>
             decoder.released = 1)
    /\ [](decoder.released <= 1)
    /\ [][decoder.released > 0 => decoder'.yielded = decoder.yielded]_vars

\* The consumer left at the first frame of a chunk that carried two: the
\* reader is released and the second frame was never handed over.
C21_Witness ==
    /\ decoder.status = "returned"
    /\ decoder.released = 1
    /\ decoder.pending # <<>>
    /\ Len(decoder.yielded) = 1

(***************************************************************************)
(* C22: an attempt that exceeds its timeout is retried, with a backoff     *)
(* wait, while the budget has an attempt left, and only the timeout of the *)
(* last attempt throws the error of the timeout kind.                      *)
(***************************************************************************)
C22_TimeoutIsRetried ==
    [][TimerFires =>
          IF client.attempt < client.retries
          THEN /\ client'.pc = "backoff"
               /\ client'.error = NoApiError
          ELSE /\ client'.pc = "thrown"
               /\ client'.error = ApiError(408, TRUE)]_vars

(***************************************************************************)
(* C23: an attempt that fails with HTTP 5xx or 429 is followed by a        *)
(* backoff wait and another attempt while the budget has one left, and no  *)
(* error is surfaced; an ok response whose body decodes makes the call     *)
(* return it with no error, whatever failed before; when the last attempt  *)
(* of the budget fails with such a status the call throws the error of     *)
(* that attempt, with its status and retryable = true.                     *)
(***************************************************************************)
C23_ServerErrorsAreRetried ==
    /\ [][\A status \in {s \in HttpErrorStatuses : s >= 500 \/ s = 429} :
             ResponseNotOk(status) =>
                IF client.attempt < client.retries
                THEN /\ client'.pc = "backoff"
                     /\ client'.error = NoApiError
                ELSE /\ client'.pc = "thrown"
                     /\ client'.error = ApiError(status, TRUE)]_vars
    /\ [][ResponseOk => client'.pc = "returned" /\ client'.error = NoApiError]_vars
    /\ [][client.pc = "backoff" =>
             client'.pc = "fetching" /\ client'.attempt = client.attempt + 1]_vars

\* The default budget: 503, 503, then 200, and the call has returned.
C23_Witness ==
    /\ client.retries = MAX_RETRIES
    /\ client.log = <<Outcome("response", 503), Outcome("response", 503),
                      Outcome("response", 200)>>
    /\ client.pc = "returned"
    /\ client.error = NoApiError

(***************************************************************************)
(* C24: an attempt that returns a 4xx status other than 429 ends the call: *)
(* it throws the error with that status and retryable = false, appends no  *)
(* backoff wait, and nothing happens after the throw; a call whose first   *)
(* attempt returns such a status has made exactly one attempt.             *)
(***************************************************************************)
C24_ClientErrorsAreNotRetried ==
    /\ [][\A status \in {s \in HttpErrorStatuses : s < 500 /\ s # 429} :
             ResponseNotOk(status) =>
                /\ client'.pc = "thrown"
                /\ client'.error = ApiError(status, FALSE)
                /\ client'.waits = client.waits
                /\ client'.attempt = client.attempt]_vars
    /\ [][client.pc = "thrown" => client' = client]_vars

\* 404 on the first attempt of a call with the default budget.
C24_Witness ==
    /\ client.retries = MAX_RETRIES
    /\ client.log = <<Outcome("response", 404)>>
    /\ client.pc = "thrown"
    /\ client.error = ApiError(404, FALSE)
    /\ client.waits = <<>>

C26_NetworkFailuresAreRetried ==
    /\ [][FetchRejects =>
             IF client.attempt < client.retries
             THEN /\ client'.pc = "backoff"
                  /\ client'.error = NoApiError
             ELSE /\ client'.pc = "thrown"
                  /\ client'.error.name = "ApiError"
                  /\ client'.error.status = 0]_vars
    /\ [](client.pc = "thrown" =>
             (client.error.status = 0 <=>
                client.log[Len(client.log)].kind = "network"))

\* The default budget, three transport failures in a row.
C26_Witness ==
    /\ client.retries = MAX_RETRIES
    /\ client.log = <<Outcome("network", NoStatus), Outcome("network", NoStatus),
                      Outcome("network", NoStatus)>>
    /\ client.pc = "thrown"
    /\ client.error.status = 0

(***************************************************************************)
(* C27: a call that has ended has returned the decoded response or thrown  *)
(* an ApiError that carries a status and a retryable flag, and an attempt  *)
(* under way has the timer that was armed for it.                          *)
(***************************************************************************)
C27_TypedOutcomeOnly ==
    /\ client.pc = "thrown" =>
          /\ client.error.name = "ApiError"
          /\ client.error.status # NoStatus
    /\ client.pc = "returned" => client.error = NoApiError
    /\ client.pc = "fetching" => client.timer = client.attempt
    /\ client.pc # "fetching" => client.timer = NoTimer

(***************************************************************************)
(* C28: while the stream opened by the latest send on S is being consumed, *)
(* streaming[S] is true and the cancel token of S is the token of that     *)
(* stream, also after an earlier, superseded stream of S has terminated.   *)
(***************************************************************************)
C28_LatestStreamHoldsToken ==
    \A s \in Sessions :
        \A k \in LiveOn(s) :
            (\A j \in 1..Len(streams) : streams[j].sid = s => j <= k) =>
                /\ MapGetOr(streamingState, s, FALSE)
                /\ MapHas(abortControllers, s)
                /\ abortControllers[s] = k

\* Read loop k has folded a done event: only that event clears the flag of
\* the placeholder in the fold of the turn.
DoneFolded(k) ==
    LET turn == streams[k].turn
    IN  Len(turn) > 0 /\ ~turn[Len(turn)].isStreaming

(***************************************************************************)
(* C29: once a done event of a stream has been folded, the last message of *)
(* its transcript has isStreaming false, and no later event of the same    *)
(* stream changes that message.                                            *)
(***************************************************************************)
C29_NothingFoldsAfterDone ==
    [][\A k \in 1..Len(streams) :
          LET s == streams[k].sid
              last(t) == t[Len(t)]
          IN  (DoneFolded(k) /\ StreamChunkUpTo(k, DoneEvents, MaxDoneEvents)) =>
                  /\ ~last(messageCache[s]).isStreaming
                  /\ last(messageCache'[s]) = last(messageCache[s])
      ]_vars

(***************************************************************************)
(* C30: the transcript shown by the UI is the cached transcript of the     *)
(* selected session, and neither a stream event nor the completion of a    *)
(* history fetch of a session that is not the selected one changes what is *)
(* shown.                                                                  *)
(***************************************************************************)
C30_ViewIsSelectedTranscript ==
    /\ []((sessionId # NoSession /\ MapHas(messageCache, sessionId)) =>
             messages = messageCache[sessionId])
    /\ [][\A s \in Sessions \ {sessionId} :
             (\/ \E k \in 1..Len(streams) :
                    streams[k].sid = s /\ StreamChunk(k, StreamEvents)
              \/ HistoryLoaded(s, "effect")) =>
                 messages' = messages]_vars

(***************************************************************************)
(* C31: delete session S leaves no stream of S running, and after the      *)
(* deletion neither an event fold nor the termination of a stream of S     *)
(* gives S an entry in the transcript map or in the streaming map again.   *)
(***************************************************************************)
C31_DeletedStaysEvicted ==
    [][/\ \A s \in Sessions :
            deleteSession(s) => LiveOn(s) = {}
       /\ \A k \in 1..Len(streams) :
            LET s == streams[k].sid
            IN  (/\ s \in Sessions \ sessions
                 /\ StreamChunk(k, StreamEvents) \/ Ends(k)) =>
                    /\ ~MapHas(messageCache', s)
                    /\ ~MapHas(streamingState', s)
      ]_vars

\* The last message of the transcript that is being folded.
LastMessage == reducer.transcript[Len(reducer.transcript)]

\* The fold started from a transcript that ends with an assistant message.
OnAssistant ==
    /\ Len(reducer.before) > 0
    /\ reducer.before[Len(reducer.before)].role = "assistant"

(***************************************************************************)
(* C32: when the transcript is empty or its last entry is a user message,  *)
(* folding a text, text_delta, thinking_start, thinking_delta,             *)
(* tool_use_start, tool_input_delta, tool_use_end, tool_result, tool_use,  *)
(* heartbeat or done event leaves the transcript unchanged.                *)
(***************************************************************************)
C32_NoAssistantNoChange ==
    [][\A chunk \in ReducerEvents :
          (/\ FoldEvent(chunk)
           /\ \/ Len(reducer.transcript) = 0
              \/ LastMessage.role = "user") =>
              reducer'.transcript = reducer.transcript]_vars

\* Four events, a tool start and a text delta among them, were folded into
\* a transcript that ends with a user message.
C32_Witness ==
    /\ Len(reducer.before) > 0
    /\ reducer.before[Len(reducer.before)].role = "user"
    /\ Len(reducer.log) = 4
    /\ \E i, j \in 1..4 : /\ reducer.log[i].type = "tool_use_start"
                           /\ reducer.log[j].type = "text_delta"
    /\ reducer.transcript = reducer.before

(***************************************************************************)
(* C33: a tool_result event sets the result of the last entry of the       *)
(* tool_use list, by position, and changes nothing else; with tools t1 and *)
(* t2 started and unresolved the result goes to t2 and t1 has none; with   *)
(* an empty tool list the event changes nothing.                           *)
(***************************************************************************)
C33_ResultGoesToLastTool ==
    [][\A chunk \in {c \in ReducerEvents : c.type = "tool_result"} :
          (FoldEvent(chunk) /\ OnAssistant) =>
              LET msg == LastMessage
                  n == Len(msg.tool_use)
              IN  IF n = 0
                  THEN reducer'.transcript = reducer.transcript
                  ELSE reducer'.transcript =
                          [reducer.transcript EXCEPT
                              ![Len(reducer.transcript)] =
                                  [msg EXCEPT !.tool_use =
                                      [msg.tool_use EXCEPT ![n] =
                                          [msg.tool_use[n] EXCEPT
                                              !.result = chunk.content]]]]
      ]_vars

\* t1 and t2 were started, then one result arrived: t2 has it, t1 has none.
C33_Witness ==
    /\ OnAssistant
    /\ reducer.log = <<ToolStart("Search", "t1"), ToolStart("Read", "t2"),
                       Event("tool_result", "found")>>
    /\ Len(LastMessage.tool_use) = 2
    /\ LastMessage.tool_use[1].id = "t1"
    /\ LastMessage.tool_use[1].result = NoResult
    /\ LastMessage.tool_use[2].id = "t2"
    /\ LastMessage.tool_use[2].result = "found"

(***************************************************************************)
(* C34: a tool_input_delta for tool id X appends its fragment to the raw   *)
(* input buffer of the entry with id X (the first one, should two entries  *)
(* carry the id) and changes no other entry, and no entry at all when no   *)
(* entry has the id; after the fragment the input of that entry is the     *)
(* parse of the whole buffer when it parses and its previous value         *)
(* otherwise.  So an entry whose buffer is a complete document has the     *)
(* input a single tool_use event would have carried for that document.     *)
(***************************************************************************)
C34_InputDeltaAccumulates ==
    /\ [][\A chunk \in {c \in ReducerEvents : c.type = "tool_input_delta"} :
             (FoldEvent(chunk) /\ OnAssistant) =>
                 LET msg == LastMessage
                     tools == msg.tool_use
                     matching == {i \in 1..Len(tools) : tools[i].id = chunk.id}
                 IN  IF matching = {}
                     THEN reducer'.transcript = reducer.transcript
                     ELSE LET x == CHOOSE i \in matching :
                                      \A j \in matching : i <= j
                              raw == tools[x].inputRaw \o chunk.content
                          IN  reducer'.transcript =
                                [reducer.transcript EXCEPT
                                   ![Len(reducer.transcript)] =
                                      [msg EXCEPT !.tool_use =
                                         [tools EXCEPT ![x] =
                                            [tools[x] EXCEPT
                                               !.inputRaw = raw,
                                               !.input =
                                                  IF raw \in JSONDocuments
                                                  THEN JSONParse(raw)
                                                  ELSE tools[x].input]]]]
         ]_vars
    /\ [](OnAssistant =>
             \A i \in 1..Len(LastMessage.tool_use) :
                 LastMessage.tool_use[i].inputRaw \in JSONDocuments =>
                     LastMessage.tool_use[i].input =
                         JSONParse(LastMessage.tool_use[i].inputRaw))

\* t1 and t2 were started and the two fragments of t1 arrived: t1 has the
\* input of the complete event, t2 is as it was started.
C34_Witness ==
    /\ OnAssistant
    /\ reducer.log = <<ToolStart("Search", "t1"), ToolStart("Read", "t2"),
                       ToolInputDelta("t1", "{q:"), ToolInputDelta("t1", "x}")>>
    /\ LastMessage.tool_use[1].inputRaw = "{q:x}"
    /\ LastMessage.tool_use[1].input = LegacyEntry.input
    /\ LastMessage.tool_use[2] = ToolEntry("Read", "t2")

\* The entries that the tool_use_start and tool_use events of frames append
\* to a tool list, in the order of the events.
RECURSIVE EntriesOf(_)
EntriesOf(frames) ==
    IF frames = <<>> THEN <<>>
    ELSE LET chunk == Head(frames)
         IN  (IF chunk.type = "tool_use_start"
              THEN <<[tool |-> chunk.tool, input |-> {}, inputRaw |-> "",
                      id |-> chunk.id, status |-> "running",
                      result |-> NoResult]>>
              ELSE IF chunk.type = "tool_use" THEN <<chunk.entry>>
              ELSE <<>>) \o EntriesOf(Tail(frames))

\* The tool names and ids of a tool list, in its order.
NamesOf(entries) ==
    [i \in 1..Len(entries) |-> <<entries[i].tool, entries[i].id>>]

\* The payload of the last text event of log, nothing when there is none,
\* followed by the payloads of the text_delta events after it.
RECURSIVE ContentOf(_)
ContentOf(log) ==
    IF log = <<>> THEN ""
    ELSE LET chunk == log[Len(log)]
             earlier == SubSeq(log, 1, Len(log) - 1)
         IN  IF chunk.type = "text" THEN chunk.content
             ELSE IF chunk.type = "text_delta"
             THEN ContentOf(earlier) \o chunk.content
             ELSE ContentOf(earlier)

\* The transcript of session s in the cache.
TranscriptOf(s) == MapGetOr(messageCache, s, <<>>)

(***************************************************************************)
(* C35: during a turn the content of the last message is the payload of    *)
(* the latest text event (nothing when there was none) followed by the     *)
(* payloads of the text_delta events received after it, in their order;    *)
(* without a text event it is the concatenation of all text_delta          *)
(* payloads.                                                               *)
(***************************************************************************)
C35_ContentIsTextThenDeltas ==
    \A k \in 1..Len(streams) :
        streams[k].status = "live" =>
            LET t == TranscriptOf(streams[k].sid)
            IN  /\ Len(t) > 0
                /\ t[Len(t)].content = ContentOf(streams[k].log)

(***************************************************************************)
(* C36: during a turn the tool_use list of the placeholder only grows: a   *)
(* tool_use_start event appends one entry with the given id and tool name, *)
(* empty input and status running, a legacy tool_use event appends the     *)
(* entry it carries, no event removes or reorders entries or changes the   *)
(* tool name or the id of an entry, and only the rollback of a stream      *)
(* error removes the message that owns the entries.                        *)
(***************************************************************************)
C36_ToolListOnlyGrows ==
    [][\A k \in 1..Len(streams) :
          (streams[k].status = "live" /\ TranscriptOf(streams[k].sid) # <<>>) =>
              LET s == streams[k].sid
                  t1 == TranscriptOf(s)
                  t2 == MapGetOr(messageCache', s, <<>>)
                  old == t1[Len(t1)].tool_use
              IN  \/ StreamError(k)
                  \/ old = <<>> /\ Len(t2) < Len(t1)
                  \/ /\ Len(t2) >= Len(t1)
                     /\ LET new == t2[Len(t1)].tool_use
                        IN  /\ Len(new) >= Len(old)
                            /\ \A i \in 1..Len(old) :
                                  /\ new[i].tool = old[i].tool
                                  /\ new[i].id = old[i].id
                            /\ \A script \in TurnScripts :
                                  StreamScript(k, script) =>
                                      LET frames == SubSeq(streams'[k].log,
                                                      Len(streams[k].log) + 1,
                                                      Len(streams'[k].log))
                                      IN  /\ NamesOf(new) =
                                               NamesOf(old \o EntriesOf(frames))
                                          /\ (Len(frames) = 1 /\ Len(new) > Len(old))
                                                => new = old \o EntriesOf(frames)
      ]_vars

(***************************************************************************)
(* C37: folding a heartbeat event changes only the liveness fields of the  *)
(* last assistant message (lastHeartbeat, responseLength, toolCount): the  *)
(* content, the thinking, the tool_use list and the isStreaming flag of    *)
(* that message, every other message and the length of the transcript stay *)
(* as they were.  A transcript whose last message is not an assistant      *)
(* message is not changed at all.                                          *)
(***************************************************************************)
C37_HeartbeatTouchesLivenessOnly ==
    [][\A chunk \in {c \in ReducerEvents : c.type = "heartbeat"} :
          FoldEvent(chunk) =>
              IF OnAssistant
              THEN LET n == Len(reducer.transcript)
                       msg == reducer.transcript[n]
                       new == reducer'.transcript[n]
                   IN  /\ Len(reducer'.transcript) = n
                       /\ \A i \in 1..(n - 1) :
                             reducer'.transcript[i] = reducer.transcript[i]
                       /\ new.content = msg.content
                       /\ new.thinking = msg.thinking
                       /\ new.tool_use = msg.tool_use
                       /\ new.isStreaming = msg.isStreaming
                       /\ new = [msg EXCEPT
                                   !.lastHeartbeat = new.lastHeartbeat,
                                   !.responseLength = chunk.response_length,
                                   !.toolCount = chunk.tool_count]
              ELSE reducer'.transcript = reducer.transcript
      ]_vars

\* A heartbeat arrived after a text delta and a tool start: the message kept
\* its text, its tool and its streaming flag and took the liveness fields.
C37_Witness ==
    /\ OnAssistant
    /\ reducer.log = <<Event("text_delta", "a"), ToolStart("Search", "t1"),
                       Heartbeat(1, 1)>>
    /\ LastMessage.content = "a"
    /\ LastMessage.tool_use = <<ToolEntry("Search", "t1")>>
    /\ LastMessage.isStreaming
    /\ LastMessage.responseLength = 1
    /\ LastMessage.toolCount = 1
    /\ LastMessage.lastHeartbeat = 1

(***************************************************************************)
(* C38: when the stream of a turn on session S has delivered               *)
(* tool_use_start(t1, Search), the fragments of the input of t1 (they      *)
(* concatenate to the document {q:x}), tool_result(found),                 *)
(* text_delta(Found it) and done, and then closes, the transcript of S is  *)
(* the transcript before the send, the user message and one assistant      *)
(* message with one tool entry (Search, input {q:x}, result found), the    *)
(* content Found it and isStreaming false, and S is not streaming.         *)
(***************************************************************************)
C38_ToolTurnEndsAsStated ==
    [][\A k \in 1..Len(streams) :
          (StreamClose(k) /\ streams[k].log = ToolTurn) =>
              LET s == streams[k].sid
                  before == streams[k].before
                  t == MapGetOr(messageCache', s, <<>>)
                  n == Len(before)
              IN  /\ Len(t) = n + 2
                  /\ SubSeq(t, 1, n) = before
                  /\ t[n + 1].role = "user"
                  /\ t[n + 1].content \in Texts
                  /\ t[n + 2].role = "assistant"
                  /\ Len(t[n + 2].tool_use) = 1
                  /\ t[n + 2].tool_use[1].tool = "Search"
                  /\ t[n + 2].tool_use[1].input = JSONParse("{q:x}")
                  /\ t[n + 2].tool_use[1].result = "found"
                  /\ t[n + 2].content = "Found it"
                  /\ ~t[n + 2].isStreaming
                  /\ ~MapGetOr(streamingState', s, FALSE)
                  /\ ~streaming'
      ]_vars

\* Whether the entry is a call of the TodoWrite tool whose input carries a
\* list of items.
CarriesTodos(tool) ==
    /\ tool.defined
    /\ tool.tool = "TodoWrite"
    /\ tool.input.defined
    /\ tool.input.todos.kind = "list"

(***************************************************************************)
(* C39: the todos read from a tool list are the items of the entry with    *)
(* the highest index that is a call of TodoWrite whose input carries a     *)
(* list of items, and none when no entry is one (or the message has no     *)
(* tool list): entries after that one, which do not qualify, and           *)
(* qualifying entries before it do not change the result.                  *)
(***************************************************************************)
C39_LatestTodosWin ==
    panel.todos.read =>
        LET qualifying == {i \in 1..Len(panel.tools) : CarriesTodos(panel.tools[i])}
        IN  IF ~panel.isArray \/ qualifying = {}
            THEN ~panel.todos.found
            ELSE LET last == CHOOSE i \in qualifying : \A j \in qualifying : j <= i
                 IN  /\ panel.todos.found
                     /\ panel.todos.items = panel.tools[last].input.todos.items

\* Two calls of TodoWrite with todos and a later call of another tool whose
\* input has a todos list too: the todos of the second call are shown.
C39_Witness ==
    /\ panel.todos.read
    /\ Len(panel.tools) = 3
    /\ CarriesTodos(panel.tools[1])
    /\ panel.tools[1].input.todos.items = <<"a">>
    /\ CarriesTodos(panel.tools[2])
    /\ panel.tools[2].input.todos.items = <<"a", "b">>
    /\ panel.tools[3].tool = "Read"
    /\ panel.tools[3].input.todos.kind = "list"
    /\ panel.todos.found
    /\ panel.todos.items = <<"a", "b">>

\* What follows the last separator of the byte sequence s.
Unterminated(s) == Split(s)[Len(Split(s))]

(***************************************************************************)
(* C40: when the source closes, the bytes after the last blank-line        *)
(* separator are still in the buffer and are dropped with it: a last frame *)
(* without its separator is never yielded, not even a valid one, and every *)
(* valid frame that a separator ends was yielded before the decoder ended. *)
(***************************************************************************)
C40_UnterminatedTailIsDiscarded ==
    /\ [](decoder.status = "closed" =>
             /\ decoder.buffer = Unterminated(decoder.input)
             /\ decoder.yielded = YieldLines(CompleteLines(decoder.input)))
    /\ [][DecoderDone =>
             /\ decoder'.yielded = decoder.yielded
             /\ decoder.yielded = YieldLines(CompleteLines(decoder.input))]_vars
    /\ [][decoder.status = "closed" => decoder' = decoder]_vars

\* The source closed after a frame with its separator and a valid frame
\* without one: the first was yielded, the second was left in the buffer.
C40_Witness ==
    /\ decoder.status = "closed"
    /\ decoder.input = <<DataPrefix, "j", LF, LF, DataPrefix, "k">>
    /\ decoder.buffer = <<DataPrefix, "k">>
    /\ StartsWithData(decoder.buffer) /\ Parses(decoder.buffer)
    /\ decoder.yielded = <<"j">>

====
